---- MODULE Spec2Model ----
(***************************************************************************)
(* Raster alignment, compositing and mask algebra of pyeo/core.py.         *)
(*                                                                         *)
(* A raster is a record: its geotransform (gt0 = origin x, gt1 = pixel     *)
(* width, gt3 = origin y, gt5 = pixel height, stored negative), its size   *)
(* in pixels, its band count, its pixel array data[band][row][col] and the *)
(* array msk[row][col] of its companion .msk file.  Arrays are indexed     *)
(* from 0 as in numpy.                                                     *)
(*                                                                         *)
(* Geographic coordinates are Python floats in the source.  The model      *)
(* counts them in whole geographic units and keeps the rounding of float   *)
(* arithmetic: every sum, difference, product and quotient is rounded to   *)
(* FloatBits significant bits, to nearest, ties to even, as IEEE-754 does  *)
(* with 53 bits.  Values below 2^FloatBits are exact, as small integers    *)
(* are in a double.                                                        *)
(***************************************************************************)
EXTENDS Integers, Sequences, FiniteSets, TLC

VARIABLES
    rasters,          \* the input rasters, in list order (raster_paths opened)
    pc,               \* "idle", the running operation's loop, "done" or "error"
    raised,           \* the exception that ended the operation, "none" without one
    op,               \* the operation that was called
    i,                \* index of the next input the loop handles (from 1)
    out,              \* the destination raster, NoRaster before it is created
    out_mask,         \* the destination mask of combine_masks
    present_layer,    \* stack_images: first destination band of the next input
    geometry_mode,    \* geometry_mode / geometry_func argument
    combination_func, \* combine_masks: combination_func argument
    nodata,           \* mosaic_images: nodata argument
    polygon,          \* pixel_bounds_from_polygon: polygon argument
    window,           \* pixel_bounds_from_polygon: returned window
    point,            \* point_to_pixel_coordinates: the pixel whose corner is converted
    pixel,            \* point_to_pixel_coordinates: returned (x_pixel, y_pixel)
    model,            \* classify_image: the model joblib.load returned
    num_chunks,       \* classify_image: num_chunks argument
    prob_out_dir,     \* classify_image: whether a prob_out_dir was given
    prob_out,         \* classify_image: the probability raster
    predicted,        \* classify_image: the chunks handed to model.predict, in order
    memory,           \* autochunk: mem_limit, the free memory and the item size
    image_paths,      \* stack_old_and_new_images: old_image_path and new_image_path
    returned,         \* stack_old_and_new_images: the value returned, << >> before
    safe_dir,         \* aggregate_and_mask_10m_bands: the files of the .SAFE directory
    resolution,       \* create_new_image_from_polygon: << x_res, y_res >>
    buffer_size,      \* buffer_mask_in_place: buffer_size argument
    files,            \* the mask files on disk: path |-> the step that wrote it, its raster
    handles,          \* the raster handles (gdal datasets) that are open
    views,            \* the live array views, each with the handle it came from
    frame             \* get_masked_array: the locals its return has yet to drop

classifier_vars == << model, num_chunks, prob_out_dir, prob_out, predicted, memory >>

granule_vars == << image_paths, returned, safe_dir >>

resource_vars == << resolution, buffer_size, files >>

lifetime_vars == << handles, views, frame >>

vars == << rasters, pc, raised, op, i, out, out_mask, present_layer, geometry_mode,
           combination_func, nodata, polygon, window, point, pixel, classifier_vars,
           granule_vars, resource_vars, lifetime_vars >>

(***************************************************************************)
(* Bounds of the model.                                                    *)
(***************************************************************************)
MaxRes == 2
MaxOff == 1
MaxSize == 2
MaxBands == 2
FloatBits == 8
MaxCols == 5
MaxRows == 3
NClasses == 3

(***************************************************************************)
(* Arithmetic.                                                             *)
(***************************************************************************)
Abs(n) == IF n < 0 THEN -n ELSE n

Sign(n) == IF n < 0 THEN -1 ELSE 1

Min(a, b) == IF a <= b THEN a ELSE b

Max(a, b) == IF a >= b THEN a ELSE b

RECURSIVE Pow2(_)
Pow2(n) == IF n <= 0 THEN 1 ELSE 2 * Pow2(n - 1)

\* The first integer that needs more than FloatBits significant bits.
FloatLimit == Pow2(FloatBits)

\* The least integer whose significand fills FloatBits bits.
HalfLimit == Pow2(FloatBits - 1)

\* The number of low bits of a >= 0 that a FloatBits-bit significand cannot hold.
RECURSIVE ExcessBits(_)
ExcessBits(a) == IF a < FloatLimit THEN 0 ELSE 1 + ExcessBits(a \div 2)

\* num / den (num >= 0, den > 0) rounded to the nearest integer, ties to even.
RoundHalfEven(num, den) ==
    LET q == num \div den
        r == num % den
    IN  IF 2 * r > den \/ (2 * r = den /\ q % 2 = 1) THEN q + 1 ELSE q

\* n rounded to a multiple of the unit u, ties to even.
RoundTo(n, u) == Sign(n) * RoundHalfEven(Abs(n), u) * u

\* The float nearest to the exact value n.
float_round(n) == RoundTo(n, Pow2(ExcessBits(Abs(n))))

float_add(a, b) == float_round(a + b)

float_sub(a, b) == float_round(a - b)

float_mul(a, b) == float_round(a * b)

\* The least s' >= s with a * 2^(s' - s) >= 2^(FloatBits - 1) * b, for a > 0 and b > 0.
RECURSIVE QuotShift(_, _, _)
QuotShift(a, b, s) == IF a >= HalfLimit * b THEN s ELSE QuotShift(2 * a, b, s + 1)

\* a / b rounded to a multiple of u, for a quotient of FloatLimit or more.
LargeQuot(a, b, u) == << RoundHalfEven(a, b * u) * u, 0 >>

\* a / b rounded to a multiple of 2^-s, for a quotient below FloatLimit.
ScaledQuot(a, b, s) == << RoundHalfEven(a * Pow2(s), b), s >>

\* The float quotient a / b (a >= 0, b > 0), as <<m, s>> standing for m / 2^s.
float_quot(a, b) ==
    IF a = 0 THEN << 0, 0 >>
    ELSE IF a \div b >= FloatLimit THEN LargeQuot(a, b, Pow2(ExcessBits(a \div b)))
    ELSE ScaledQuot(a, b, QuotShift(a, b, 0))

\* The floor of m / u, negated first where negative holds.
FloorOf(m, u, negative) == IF negative THEN -((m + u - 1) \div u) ELSE m \div u

FloorOfQuot(q, negative) == FloorOf(q[1], Pow2(q[2]), negative)

\* int(np.floor(a / b)): the float quotient, rounded down.
float_floor_div(a, b) == FloorOfQuot(float_quot(Abs(a), Abs(b)), (a < 0) # (b < 0))

\* m / u truncated toward zero, negated where negative holds.
TruncOf(m, u, negative) == IF negative THEN -(m \div u) ELSE m \div u

TruncOfQuot(q, negative) == TruncOf(q[1], Pow2(q[2]), negative)

\* int(a / b): the float quotient, truncated toward zero.
float_trunc_div(a, b) == TruncOfQuot(float_quot(Abs(a), Abs(b)), (a < 0) # (b < 0))

(***************************************************************************)
(* Rasters and arrays.                                                     *)
(***************************************************************************)
NoRaster == [RasterCount |-> 0]

NoWindow == << >>

Raster(gt0, gt1, gt3, gt5, xsize, ysize, bands, data, msk) ==
    [gt0 |-> gt0, gt1 |-> gt1, gt3 |-> gt3, gt5 |-> gt5,
     RasterXSize |-> xsize, RasterYSize |-> ysize, RasterCount |-> bands,
     data |-> data, msk |-> msk]

\* An array of the given shape holding v everywhere (driver.Create zero-fills).
Full3(bands, ysize, xsize, v) ==
    [k \in 0 .. bands - 1 |-> [r \in 0 .. ysize - 1 |-> [c \in 0 .. xsize - 1 |-> v]]]

Full2(ysize, xsize, v) == [r \in 0 .. ysize - 1 |-> [c \in 0 .. xsize - 1 |-> v]]

\* The shape, as <<bands, rows, columns>>, of a raster's pixel array.
Shape(raster) == << raster.RasterCount, raster.RasterYSize, raster.RasterXSize >>

(***************************************************************************)
(* Polygons.  Every polygon the modelled operations build is the bounding  *)
(* rectangle of a raster or the result of Intersection / Union on such     *)
(* rectangles.  A geometry is empty or an axis-aligned rectangle, which an *)
(* Intersection may flatten to a line or a point.  Of a Union only its     *)
(* envelope is read (GetEnvelope, or an Intersection with a rectangle      *)
(* inside that envelope), so a Union is held as its envelope.              *)
(***************************************************************************)
EmptyGeometry == [empty |-> TRUE, x_min |-> 0, x_max |-> 0, y_min |-> 0, y_max |-> 0]

Rectangle(x1, x2, y1, y2) ==
    [empty |-> FALSE, x_min |-> Min(x1, x2), x_max |-> Max(x1, x2),
     y_min |-> Min(y1, y2), y_max |-> Max(y1, y2)]

\* ogr Geometry.Intersection
Intersection(p, q) ==
    IF p.empty \/ q.empty THEN EmptyGeometry
    ELSE IF Max(p.x_min, q.x_min) > Min(p.x_max, q.x_max)
            \/ Max(p.y_min, q.y_min) > Min(p.y_max, q.y_max)
    THEN EmptyGeometry
    ELSE Rectangle(Max(p.x_min, q.x_min), Min(p.x_max, q.x_max),
                   Max(p.y_min, q.y_min), Min(p.y_max, q.y_max))

\* ogr Geometry.Union, as its envelope
Union(p, q) ==
    IF p.empty THEN q
    ELSE IF q.empty THEN p
    ELSE Rectangle(Min(p.x_min, q.x_min), Max(p.x_max, q.x_max),
                   Min(p.y_min, q.y_min), Max(p.y_max, q.y_max))

\* ogr Geometry.Boundary: the ring of a polygon, the two end points of a line,
\* nothing for a point or an empty geometry.
Boundary(p) ==
    IF p.empty \/ (p.x_min = p.x_max /\ p.y_min = p.y_max) THEN EmptyGeometry ELSE p

\* What Boundary returns for a geometry.  The boundary of an empty
\* intersection depends on the GEOS build behind ogr: a build whose empty
\* intersection is an empty polygon returns an empty geometry, a build whose
\* empty intersection is an empty geometry collection refuses the operation
\* and Boundary returns None.
BoundaryResults(p) == IF p.empty THEN {"geometry", "None"} ELSE {"geometry"}

\* ogr Geometry.GetEnvelope: (0, 0, 0, 0) for an empty geometry.
GetEnvelope(p) == << p.x_min, p.x_max, p.y_min, p.y_max >>

get_raster_bounds(raster) ==
    Rectangle(raster.gt0,
              float_add(raster.gt0, float_mul(raster.gt1, raster.RasterXSize)),
              raster.gt3,
              float_sub(raster.gt3,
                        float_mul(float_mul(raster.gt5, raster.RasterYSize), -1)))

get_poly_intersection(poly1, poly2) == Intersection(poly1, poly2)

\* Simplify(0) leaves a rectangle as it is.
RECURSIVE multiple_intersection(_)
multiple_intersection(polygons) ==
    IF Len(polygons) = 1 THEN polygons[1]
    ELSE Intersection(multiple_intersection(SubSeq(polygons, 1, Len(polygons) - 1)),
                      polygons[Len(polygons)])

RECURSIVE multiple_union(_)
multiple_union(polygons) ==
    IF Len(polygons) = 1 THEN polygons[1]
    ELSE Union(multiple_union(SubSeq(polygons, 1, Len(polygons) - 1)),
               polygons[Len(polygons)])

raster_bounds_of(rs) == [j \in 1 .. Len(rs) |-> get_raster_bounds(rs[j])]

combine_polygons(raster_bounds, mode) ==
    IF mode = "intersect" THEN multiple_intersection(raster_bounds)
    ELSE IF mode = "union" THEN multiple_union(raster_bounds)
    ELSE "Invalid geometry mode"

\* The polygon, or "Invalid geometry mode" for a mode that is neither.
get_combined_polygon(rs, mode) == combine_polygons(raster_bounds_of(rs), mode)

\* The pixel (x_pixel, y_pixel) of the raster that holds the point (x_geo, y_geo).
point_to_pixel_coordinates(raster, x_geo, y_geo) ==
    << float_floor_div(float_sub(x_geo, raster.gt0), raster.gt1),
       float_floor_div(float_sub(y_geo, raster.gt3), raster.gt5) >>

\* The pixels of the two corners (min_x, min_y) and (max_x, max_y) of an envelope.
corner_pixels(raster, env) ==
    << point_to_pixel_coordinates(raster, env[1], env[3]),
       point_to_pixel_coordinates(raster, env[2], env[4]) >>

\* The envelope, in geographic units, of the part of the polygon on the raster.
bounds_geo(raster, poly) ==
    GetEnvelope(Boundary(get_poly_intersection(get_raster_bounds(raster), poly)))

\* The window without the swap of inverted pairs.
window_unswapped(p) == << p[1][1], p[2][1], p[1][2], p[2][2] >>

\* The window <<x_min, x_max, y_min, y_max>> of two corner pixels: a pair
\* with x_min >= x_max or y_min >= y_max is swapped.
window_of(p) ==
    << IF p[1][1] >= p[2][1] THEN p[2][1] ELSE p[1][1],
       IF p[1][1] >= p[2][1] THEN p[1][1] ELSE p[2][1],
       IF p[1][2] >= p[2][2] THEN p[2][2] ELSE p[1][2],
       IF p[1][2] >= p[2][2] THEN p[1][2] ELSE p[2][2] >>

\* The window <<x_min, x_max, y_min, y_max>>, in pixels of the raster, of the
\* intersection of the raster's bounds and the polygon.
pixel_bounds_from_polygon(raster, poly) ==
    window_of(corner_pixels(raster, bounds_geo(raster, poly)))

\* The geographic corner of pixel (col, row): origin + col * pixel width,
\* origin + row * pixel height, as get_raster_bounds computes a raster's corners.
pixel_corner(raster, col, row) ==
    << float_add(raster.gt0, float_mul(raster.gt1, col)),
       float_add(raster.gt3, float_mul(raster.gt5, row)) >>

\* The raster of the given size, or NoRaster where driver.Create refuses a
\* raster of no columns or no rows.
create_image(x_min, y_max, x_res, y_res, bands, final_width_pixels, final_height_pixels) ==
    IF final_width_pixels <= 0 \/ final_height_pixels <= 0 THEN NoRaster
    ELSE Raster(x_min, x_res, y_max, float_mul(y_res, -1),
                final_width_pixels, final_height_pixels, bands,
                Full3(bands, final_height_pixels, final_width_pixels, 0),
                Full2(final_height_pixels, final_width_pixels, 0))

\* An allocator that rounds the size to the nearest whole pixel.
create_new_image_rounded(poly, x_res, y_res, bands) ==
    create_image(poly.x_min, poly.y_max, x_res, y_res, bands,
                 RoundHalfEven(poly.x_max - poly.x_min, x_res),
                 RoundHalfEven(poly.y_max - poly.y_min, y_res))

\* The raster create_new_image_from_polygon returns.
create_new_image_from_polygon(poly, x_res, y_res, bands) ==
    create_image(poly.x_min, poly.y_max, x_res, y_res, bands,
                 float_trunc_div(float_sub(poly.x_max, poly.x_min), x_res),
                 float_trunc_div(float_sub(poly.y_max, poly.y_min), y_res))

(***************************************************************************)
(* numpy.  A view is the <<start, stop>> range of each axis of the array   *)
(* it slices; a GetVirtualMemArray of a raster with one band is a 2-D      *)
(* array, which the model holds as a 3-D array of one band and marks by    *)
(* Is2D where the source indexes it.                                       *)
(***************************************************************************)
\* One end of a basic slice on an axis of length n: a negative end counts from
\* the back, and both ends are clipped to the axis.
SliceIndex(j, n) == IF j < 0 THEN Max(j + n, 0) ELSE Min(j, n)

\* array[lo:hi] on an axis of length n
Slice(lo, hi, n) == << SliceIndex(lo, n), Max(SliceIndex(lo, n), SliceIndex(hi, n)) >>

View(bs, ys, xs) == [b |-> bs, y |-> ys, x |-> xs]

ViewShape(v) == << v.b[2] - v.b[1], v.y[2] - v.y[1], v.x[2] - v.x[1] >>

\* The array a view of array a holds, indexed from 0.
SubArray(a, v) ==
    [k \in 0 .. v.b[2] - v.b[1] - 1 |->
        [r \in 0 .. v.y[2] - v.y[1] - 1 |->
            [c \in 0 .. v.x[2] - v.x[1] - 1 |-> a[k + v.b[1]][r + v.y[1]][c + v.x[1]]]]]

\* GetVirtualMemArray gives a 2-D array for a raster of one band.
Is2D(raster) == raster.RasterCount = 1

\* A source of shape src broadcasts to shape dst: each axis agrees or is 1 in src.
BroadcastsTo(src, dst) == \A d \in 1 .. 3 : src[d] = dst[d] \/ src[d] = 1

\* Two operands broadcast together: each axis agrees or is 1 in one of them.
BroadcastTogether(s1, s2) == \A d \in 1 .. 3 : s1[d] = s2[d] \/ s1[d] = 1 \/ s2[d] = 1

\* np.copyto(dst[view], src, where=where): the array dst afterwards.  src and
\* where have the shape src_shape, which broadcasts to the view's.
np_copyto(dst, v, src, src_shape, where) ==
    [k \in DOMAIN dst |-> [r \in DOMAIN dst[k] |-> [c \in DOMAIN dst[k][r] |->
        IF /\ v.b[1] <= k /\ k < v.b[2]
           /\ v.y[1] <= r /\ r < v.y[2]
           /\ v.x[1] <= c /\ c < v.x[2]
        THEN LET sk == IF src_shape[1] = 1 THEN 0 ELSE k - v.b[1]
                 sr == IF src_shape[2] = 1 THEN 0 ELSE r - v.y[1]
                 sc == IF src_shape[3] = 1 THEN 0 ELSE c - v.x[1]
             IN  IF where[sk][sr][sc] THEN src[sk][sr][sc] ELSE dst[k][r][c]
        ELSE dst[k][r][c]]]]

\* An all-true where argument of the given shape.
Everywhere(shape) == Full3(shape[1], shape[2], shape[3], TRUE)

\* project_array(mask, depth, 0): the 2-D mask repeated along a new first axis.
project_array(array_in, depth) == [k \in 0 .. depth - 1 |-> array_in]

(***************************************************************************)
(* Inputs.  Pixel values are tags that name their source, band, row and    *)
(* column, so that a destination value tells where it was copied from; 0   *)
(* is the default nodata value.                                            *)
(***************************************************************************)
Tag(src, k, r, c) == 1000 * src + 100 * k + 10 * r + c + 1

TagData(src, bands, ysize, xsize) ==
    [k \in 0 .. bands - 1 |->
        [r \in 0 .. ysize - 1 |-> [c \in 0 .. xsize - 1 |-> Tag(src, k, r, c)]]]

PixelSizes == 1 .. MaxRes

Offsets == -MaxOff .. MaxOff

Sizes == 1 .. MaxSize

\* Two rasters of one pixel size: the first at the origin, the second offset
\* by any whole number of geographic units (a fraction of a pixel included),
\* each of its own size and band count, with all-valid masks.
GeometryInputs(BandCounts) ==
    { << Raster(0, xr, 0, -yr, w1, h1, b1, TagData(1, b1, h1, w1), Full2(h1, w1, 1)),
         Raster(dx, xr, dy, -yr, w2, h2, b2, TagData(2, b2, h2, w2), Full2(h2, w2, 1)) >> :
        xr \in PixelSizes, yr \in PixelSizes, dx \in Offsets, dy \in Offsets,
        w1 \in Sizes, h1 \in Sizes, w2 \in Sizes, h2 \in Sizes,
        b1 \in BandCounts, b2 \in BandCounts }

\* One raster whose pixel size fills the significand, so that the products and
\* quotients of the affine conversion are rounded (as with a pixel size of 0.1
\* in a double).  Its origin is zero or a few pixels away from zero: the
\* coordinates stay far below the size at which a float no longer tells two
\* neighbouring pixels apart.
FloatInputs ==
    { << Raster(float_mul(p, n), p, float_mul(p, n), -p, MaxSize + 2, MaxSize + 2, 1,
                TagData(1, 1, MaxSize + 2, MaxSize + 2),
                Full2(MaxSize + 2, MaxSize + 2, 1)) >> :
        p \in 1 .. FloatLimit - 1, n \in {0, MaxSize} }

\* An offset that puts the second raster clear of the first.
Apart == MaxOff + MaxRes * MaxSize

ApartOffsets == {<< dx, dy >> \in {-Apart, 0, Apart} \X {-Apart, 0, Apart} :
                    dx # 0 \/ dy # 0}

\* Two rasters of one pixel size, size and band count whose footprints have
\* no point in common, with all-valid masks.
ApartInputs(BandCounts) ==
    { << Raster(0, xr, 0, -yr, w, h, b, TagData(1, b, h, w), Full2(h, w, 1)),
         Raster(d[1], xr, d[2], -yr, w, h, b, TagData(2, b, h, w), Full2(h, w, 1)) >> :
        xr \in PixelSizes, yr \in PixelSizes, d \in ApartOffsets,
        w \in Sizes, h \in Sizes, b \in BandCounts }

\* A choice of positions of an array: none, any one, or all of them.
SparseSets(positions) == {{}} \cup {{q} : q \in positions} \cup {positions}

\* A choice of positions of an array: none, one, all but one, or all of them.
MaskSets(positions) == SparseSets(positions) \cup {positions \ {q} : q \in positions}

Positions3(bands, ysize, xsize) ==
    (0 .. bands - 1) \X (0 .. ysize - 1) \X (0 .. xsize - 1)

Positions2(ysize, xsize) == (0 .. ysize - 1) \X (0 .. xsize - 1)

\* The array with nodata (0) at the given positions.
Punch(data, holes) ==
    [k \in DOMAIN data |-> [r \in DOMAIN data[k] |-> [c \in DOMAIN data[k][r] |->
        IF << k, r, c >> \in holes THEN 0 ELSE data[k][r][c]]]]

\* The binary mask that is 0 at the given positions.
MaskOf(ysize, xsize, zeros) ==
    [r \in 0 .. ysize - 1 |-> [c \in 0 .. xsize - 1 |->
        IF << r, c >> \in zeros THEN 0 ELSE 1]]

AlignedPixelSize == << MaxRes, MaxRes + 1 >>

PixelOffsets == {-1, 0, 1}

\* Two rasters on one pixel grid, of one size and band count, the second
\* offset by whole pixels, each with nodata at a choice of positions.
ShiftedInputs ==
    UNION { { << Raster(0, AlignedPixelSize[1], 0, -AlignedPixelSize[2], w, h, b,
                        Punch(TagData(1, b, h, w), z1), Full2(h, w, 1)),
                 Raster(dx * AlignedPixelSize[1], AlignedPixelSize[1],
                        dy * AlignedPixelSize[2], -AlignedPixelSize[2], w, h, b,
                        Punch(TagData(2, b, h, w), z2), Full2(h, w, 1)) >> :
                z1 \in SparseSets(Positions3(b, h, w)),
                z2 \in SparseSets(Positions3(b, h, w)) \ {Positions3(b, h, w)},
                dx \in PixelOffsets, dy \in PixelOffsets } :
            w \in Sizes, h \in Sizes, b \in 1 .. MaxBands }

\* Two identical copies of one raster that holds no nodata.
CopiedInputs ==
    { << Raster(0, AlignedPixelSize[1], 0, -AlignedPixelSize[2], w, h, b,
                TagData(1, b, h, w), Full2(h, w, 1)),
         Raster(0, AlignedPixelSize[1], 0, -AlignedPixelSize[2], w, h, b,
                TagData(1, b, h, w), Full2(h, w, 1)) >> :
        w \in Sizes, h \in Sizes, b \in 1 .. MaxBands }

MosaicInputs == ShiftedInputs \cup CopiedInputs

\* Two rasters on one pixel grid, of one size and band count, the second
\* offset by whole pixels, each with a companion mask of its own.
CompositeInputs ==
    UNION { { << Raster(0, AlignedPixelSize[1], 0, -AlignedPixelSize[2], w, h, b,
                        TagData(1, b, h, w), MaskOf(h, w, z1)),
                 Raster(dx * AlignedPixelSize[1], AlignedPixelSize[1],
                        dy * AlignedPixelSize[2], -AlignedPixelSize[2], w, h, b,
                        TagData(2, b, h, w), MaskOf(h, w, z2)) >> :
                z1 \in MaskSets(Positions2(h, w)), z2 \in MaskSets(Positions2(h, w)),
                dx \in PixelOffsets, dy \in PixelOffsets } :
            w \in Sizes, h \in Sizes, b \in 1 .. MaxBands }

\* A raster of one band and one row of pixels at the origin, with the mask.
MaskRaster(src, m) ==
    Raster(0, 1, 0, -1, MaxSize + 1, 1, 1, TagData(src, 1, 1, MaxSize + 1), m)

BinaryMasks == [{0} -> [0 .. MaxSize -> {0, 1}]]

\* Two rasters of one extent with every combination of binary masks.
MaskPairs ==
    { << MaskRaster(1, m1), MaskRaster(2, m2) >> : m1 \in BinaryMasks, m2 \in BinaryMasks }

\* Two or three rasters of one extent with every combination of binary masks.
MaskInputs ==
    MaskPairs \cup { << MaskRaster(1, m1), MaskRaster(2, m2), MaskRaster(3, m3) >> :
                        m1 \in BinaryMasks, m2 \in BinaryMasks, m3 \in BinaryMasks }

\* No raster, or one raster with a mask of its own.
ShortInputs ==
    {<< >>} \cup
    UNION { { << Raster(0, xr, 0, -yr, w, h, b, TagData(1, b, h, w), MaskOf(h, w, z)) >> :
                xr \in PixelSizes, yr \in PixelSizes, b \in 1 .. MaxBands,
                z \in SparseSets(Positions2(h, w)) } :
            w \in Sizes, h \in Sizes }

\* No model is loaded.
NoModel == [n_features |-> 0, n_classes_ |-> 0]

\* autochunk is not called.
NoMemory == [mem_limit |-> 0, avail |-> 0, itemsize |-> 0]

\* No .SAFE directory is read.
NoSafeDir == [path |-> "", bands |-> {}, cloud |-> NoRaster]

\* The operation takes rasters, no image names and no .SAFE directory.
NoGranule ==
    /\ image_paths = << >>
    /\ safe_dir = NoSafeDir

Idle ==
    /\ pc = "idle"
    /\ raised = "none"
    /\ op = "none"
    /\ i = 0
    /\ out = NoRaster
    /\ out_mask = NoRaster
    /\ present_layer = 0
    /\ geometry_mode = "none"
    /\ combination_func = "none"
    /\ nodata = 0
    /\ polygon = EmptyGeometry
    /\ window = NoWindow
    /\ point = << >>
    /\ pixel = << >>
    /\ model = NoModel
    /\ num_chunks = 0
    /\ prob_out_dir = FALSE
    /\ prob_out = NoRaster
    /\ predicted = << >>
    /\ memory = NoMemory
    /\ returned = << >>
    /\ resolution = << >>
    /\ buffer_size = 0
    /\ files = << >>
    /\ handles = {}
    /\ views = {}
    /\ frame = {}

(***************************************************************************)
(* The geometry primitives, called on their own.                           *)
(***************************************************************************)
InitGeometry ==
    /\ rasters \in GeometryInputs({1}) \cup FloatInputs \cup ApartInputs({1})
    /\ Idle
    /\ NoGranule

\* The polygons the operations hand to pixel_bounds_from_polygon: the bounds
\* of an input and the combined polygon of the inputs.
Polygons ==
    { get_raster_bounds(rasters[j]) : j \in 1 .. Len(rasters) }
        \cup { get_combined_polygon(rasters, "intersect"),
               get_combined_polygon(rasters, "union") }

\* pixel_bounds_from_polygon returns its window, or bounds_geo is None and
\* bounds_geo.GetEnvelope() raises.
PixelBounds(raster, poly, boundary) ==
    IF boundary = "None"
    THEN /\ pc' = "error"
         /\ raised' = "AttributeError"
         /\ window' = window
    ELSE /\ pc' = "done"
         /\ raised' = "none"
         /\ window' = pixel_bounds_from_polygon(raster, poly)

PixelBoundsFromPolygon ==
    /\ pc = "idle"
    /\ \E a \in 1 .. Len(rasters), poly \in Polygons :
        /\ i' = a
        /\ polygon' = poly
        /\ \E boundary \in BoundaryResults(
                   get_poly_intersection(get_raster_bounds(rasters[a]), poly)) :
               PixelBounds(rasters[a], poly, boundary)
    /\ op' = "pixel_bounds_from_polygon"
    /\ UNCHANGED << rasters, out, out_mask, present_layer, geometry_mode,
                    combination_func, nodata, point, pixel >>
    /\ UNCHANGED << classifier_vars, granule_vars, resource_vars, lifetime_vars >>

PointToPixelCoordinates ==
    /\ pc = "idle"
    /\ \E a \in 1 .. Len(rasters) :
        \E col \in 0 .. rasters[a].RasterXSize - 1, row \in 0 .. rasters[a].RasterYSize - 1 :
            LET geo == pixel_corner(rasters[a], col, row)
            IN  /\ i' = a
                /\ point' = << col, row >>
                /\ pixel' = point_to_pixel_coordinates(rasters[a], geo[1], geo[2])
    /\ op' = "point_to_pixel_coordinates"
    /\ pc' = "done"
    /\ raised' = "none"
    /\ UNCHANGED << rasters, out, out_mask, present_layer, geometry_mode,
                    combination_func, nodata, polygon, window >>
    /\ UNCHANGED << classifier_vars, granule_vars, resource_vars, lifetime_vars >>

NextGeometry == PixelBoundsFromPolygon \/ PointToPixelCoordinates

SpecGeometry == InitGeometry /\ [][NextGeometry]_vars

(***************************************************************************)
(* The compositor and the mask algebra.  An operation opens its inputs and *)
(* creates its output, then copies one input per step of its loop; a step  *)
(* that numpy refuses ends the operation with the output as it then is.    *)
(***************************************************************************)
GeometryModes == {"intersect", "union"}

CombinationFuncs == {"and", "or", "nor"}

NodataValues == {0, -9999}

RECURSIVE SumBands(_)
SumBands(rs) ==
    IF Len(rs) = 0 THEN 0
    ELSE SumBands(SubSeq(rs, 1, Len(rs) - 1)) + rs[Len(rs)].RasterCount

\* One band more than the inputs hold.
total_layers_and_one(rs) == SumBands(rs) + 1

\* total_layers = sum(raster.RasterCount for raster in rasters)
total_layers(rs) == SumBands(rs)

\* The .msk file beside a raster, opened as a raster of one band.
open_mask(raster) ==
    Raster(raster.gt0, raster.gt1, raster.gt3, raster.gt5,
           raster.RasterXSize, raster.RasterYSize, 1,
           [k \in {0} |-> raster.msk], raster.msk)

\* np.copyto(out_view, in_view): whether numpy accepts the shapes, what it
\* raises if it does not, the views, and the output array afterwards.
stack_copy(o, in_raster, out_raster_view, in_raster_view) ==
    [ok |-> BroadcastsTo(ViewShape(in_raster_view), ViewShape(out_raster_view)),
     raised |-> "ValueError",
     out_view |-> out_raster_view,
     in_view |-> in_raster_view,
     data |-> IF BroadcastsTo(ViewShape(in_raster_view), ViewShape(out_raster_view))
              THEN np_copyto(o.data, out_raster_view,
                             SubArray(in_raster.data, in_raster_view),
                             ViewShape(in_raster_view),
                             Everywhere(ViewShape(in_raster_view)))
              ELSE o.data]

\* The views with every input written to the first bands of the output.
stack_views_first_layer(o, in_raster, layer, ow, iw) ==
    stack_copy(o, in_raster,
               View(Slice(0, in_raster.RasterCount, o.RasterCount),
                    Slice(ow[3], ow[4], o.RasterYSize),
                    Slice(ow[1], ow[2], o.RasterXSize)),
               View(Slice(0, in_raster.RasterCount, in_raster.RasterCount),
                    Slice(iw[3], iw[4], in_raster.RasterYSize),
                    Slice(iw[1], iw[2], in_raster.RasterXSize)))

\* The views of the output and of the input at their windows ow and iw.
stack_views(o, in_raster, layer, ow, iw) ==
    stack_copy(o, in_raster,
               View(Slice(layer, layer + in_raster.RasterCount, o.RasterCount),
                    Slice(ow[3], ow[4], o.RasterYSize),
                    Slice(ow[1], ow[2], o.RasterXSize)),
               View(Slice(0, in_raster.RasterCount, in_raster.RasterCount),
                    Slice(iw[3], iw[4], in_raster.RasterYSize),
                    Slice(iw[1], iw[2], in_raster.RasterXSize)))

\* One pass of the loop of stack_images: the windows of the output and of the
\* input over the combined polygon, and the copy between them.
stack_step(o, in_raster, layer, combined_polygons) ==
    stack_views(o, in_raster, layer,
                pixel_bounds_from_polygon(o, combined_polygons),
                pixel_bounds_from_polygon(in_raster, combined_polygons))

\* A where argument that lets every value through, nodata included.
every_value(array, nd) ==
    [k \in DOMAIN array |-> [r \in DOMAIN array[k] |->
        [c \in DOMAIN array[k][r] |-> TRUE]]]

\* in_raster_array != nodata
not_nodata(array, nd) ==
    [k \in DOMAIN array |-> [r \in DOMAIN array[k] |->
        [c \in DOMAIN array[k][r] |-> array[k][r][c] # nd]]]

\* np.copyto(out_view, in_raster_array, where=in_raster_array != nodata).
\* The output array of a raster of one band is 2-D, and the three-index
\* view of it is an IndexError.
mosaic_copy(o, raster, nd, out_raster_view) ==
    [ok |-> ~Is2D(o) /\ BroadcastsTo(Shape(raster), ViewShape(out_raster_view)),
     raised |-> IF Is2D(o) THEN "IndexError" ELSE "ValueError",
     out_view |-> out_raster_view,
     data |-> IF ~Is2D(o) /\ BroadcastsTo(Shape(raster), ViewShape(out_raster_view))
              THEN np_copyto(o.data, out_raster_view, raster.data, Shape(raster),
                             not_nodata(raster.data, nd))
              ELSE o.data]

\* The view of every band of the output at the window w.
window_view(o, w) ==
    View(Slice(0, o.RasterCount, o.RasterCount),
         Slice(w[3], w[4], o.RasterYSize),
         Slice(w[1], w[2], o.RasterXSize))

\* One pass of the loop of mosaic_images.
mosaic_step(o, raster, nd) ==
    mosaic_copy(o, raster, nd,
                window_view(o, pixel_bounds_from_polygon(o, get_raster_bounds(raster))))

\* The array itself, where its negation is meant.
logical_same(array) == array

\* np.logical_not
logical_not(array) ==
    [k \in DOMAIN array |-> [r \in DOMAIN array[k] |->
        [c \in DOMAIN array[k][r] |-> ~array[k][r][c]]]]

\* np.logical_not of a 2-D array of numbers: TRUE where the number is 0.
logical_not_2d(array) ==
    [r \in DOMAIN array |-> [c \in DOMAIN array[r] |-> array[r][c] = 0]]

\* The masked array of a raster: its data, with mask TRUE where the .msk
\* file holds 0, the single mask band projected to the raster's bands.
get_masked_array(raster) ==
    [data |-> raster.data,
     mask |-> project_array(logical_not_2d(raster.msk), raster.RasterCount)]

\* np.copyto(output_view, in_masked, where=np.logical_not(in_masked.mask))
composite_copy(o, in_raster, in_masked, output_view) ==
    [ok |-> BroadcastsTo(Shape(in_raster), ViewShape(output_view)),
     raised |-> "ValueError",
     out_view |-> output_view,
     data |-> IF BroadcastsTo(Shape(in_raster), ViewShape(output_view))
              THEN np_copyto(o.data, output_view, in_masked.data, Shape(in_raster),
                             logical_not(in_masked.mask))
              ELSE o.data]

\* One pass of the loop of composite_images_with_mask.
composite_step(o, in_raster) ==
    composite_copy(o, in_raster, get_masked_array(in_raster),
                   window_view(o, pixel_bounds_from_polygon(o, get_raster_bounds(in_raster))))

\* np.bitwise_or, np.bitwise_and and np.bitwise_not on the bytes 0, 1, 254, 255
bitwise_or(a, b) ==
    IF a = 255 \/ b = 255 \/ (a = 254 /\ b = 1) \/ (a = 1 /\ b = 254) THEN 255
    ELSE Max(a, b)

bitwise_and(a, b) ==
    IF a = 255 THEN b ELSE IF b = 255 THEN a
    ELSE IF a = b THEN a ELSE 0

bitwise_not(a) == 255 - a

\* The combination of two bytes.
combine(comb, a, b) ==
    IF comb = "or" THEN bitwise_or(a, b)
    ELSE IF comb = "and" THEN bitwise_and(a, b)
    ELSE bitwise_not(bitwise_or(a, b))

\* The array that a bitwise operation on two 2-D views returns.
combine_arrays(comb, outs, so, ins, si) ==
    [r \in 0 .. Max(so[2], si[2]) - 1 |-> [c \in 0 .. Max(so[3], si[3]) - 1 |->
        combine(comb, outs[0][IF so[2] = 1 THEN 0 ELSE r][IF so[3] = 1 THEN 0 ELSE c],
                ins[0][IF si[2] = 1 THEN 0 ELSE r][IF si[3] = 1 THEN 0 ELSE c])]]

\* The combination of the two views is computed into a new array, bound to
\* the local name out_mask_view and dropped at the end of the pass: the
\* array of the output mask is not written.
combine_views(o, in_mask, comb, out_mask_view, in_mask_view) ==
    [ok |-> comb \in CombinationFuncs
                /\ BroadcastTogether(ViewShape(out_mask_view), ViewShape(in_mask_view)),
     raised |-> IF comb \notin CombinationFuncs THEN "Exception: Invalid combination_func"
                ELSE "ValueError",
     local_out_mask_view |->
         IF comb \in CombinationFuncs
                /\ BroadcastTogether(ViewShape(out_mask_view), ViewShape(in_mask_view))
         THEN combine_arrays(comb, SubArray(o.data, out_mask_view), ViewShape(out_mask_view),
                             SubArray(in_mask.data, in_mask_view), ViewShape(in_mask_view))
         ELSE << >>,
     data |-> o.data]

\* The 2-D view of a mask at the window w.
mask_view(o, w) ==
    View(<< 0, 1 >>, Slice(w[3], w[4], o.RasterYSize), Slice(w[1], w[2], o.RasterXSize))

\* One pass of the loop of combine_masks over the polygon that the geometry
\* function selects: the combined polygon, or the bounds of the input.
combine_step(o, in_mask, comb, polygon_used) ==
    combine_views(o, in_mask, comb,
                  mask_view(o, pixel_bounds_from_polygon(o, polygon_used)),
                  mask_view(in_mask, pixel_bounds_from_polygon(in_mask, polygon_used)))

RECURSIVE combine_loop(_, _, _, _, _, _)
RECURSIVE combine_next(_, _, _, _, _, _, _)
combine_next(step, o, masks, j, comb, geom, combined_polygon) ==
    IF step.ok
    THEN combine_loop([o EXCEPT !.data = step.data], masks, j + 1, comb, geom,
                      combined_polygon)
    ELSE [status |-> "error", raised |-> step.raised, out_mask |-> o]

combine_loop(o, masks, j, comb, geom, combined_polygon) ==
    IF j > Len(masks) THEN [status |-> "done", raised |-> "none", out_mask |-> o]
    ELSE combine_next(combine_step(o, masks[j], comb,
                                   IF geom = "intersect" THEN combined_polygon
                                   ELSE get_raster_bounds(masks[j])),
                      o, masks, j, comb, geom, combined_polygon)

\* The output mask as driver.Create leaves it, with its array of zeros.
out_mask_zeros(created) ==
    [created EXCEPT !.data = Full3(1, created.RasterYSize, created.RasterXSize, 0)]

\* out_mask_array[:, :] = 1
out_mask_fill(created) ==
    [created EXCEPT !.data = Full3(1, created.RasterYSize, created.RasterXSize, 1)]

combine_created(created, masks, comb, geom, combined_polygon) ==
    IF created.RasterCount = 0
    THEN [status |-> "error", raised |-> "RuntimeError", out_mask |-> NoRaster]
    ELSE combine_loop(out_mask_fill(created), masks, 1, comb, geom, combined_polygon)

combine_over(masks, comb, geom, combined_polygon) ==
    combine_created(create_new_image_from_polygon(combined_polygon, masks[1].gt1,
                                                  float_mul(masks[1].gt5, -1), 1),
                    masks, comb, geom, combined_polygon)

\* combine_masks: how it ends, what it raises, and the mask file it leaves.
\* get_combined_polygon refuses a geometry mode it does not know, and
\* polygons[0] of no polygons is an IndexError.
combine_masks(masks, comb, geom) ==
    IF geom \notin GeometryModes
    THEN [status |-> "error", raised |-> "Exception: Invalid geometry mode",
          out_mask |-> NoRaster]
    ELSE IF Len(masks) = 0
    THEN [status |-> "error", raised |-> "IndexError", out_mask |-> NoRaster]
    ELSE combine_over(masks, comb, geom, get_combined_polygon(masks, geom))

\* The .msk files beside the rasters.
mask_paths(rs) == [j \in 1 .. Len(rs) |-> open_mask(rs[j])]

Init ==
    /\ rasters \in GeometryInputs(1 .. MaxBands) \cup MosaicInputs
                       \cup CompositeInputs \cup MaskInputs
    /\ Idle
    /\ NoGranule

\* The output is created, and the loop begins unless driver.Create refused.
Created(created, loop) ==
    /\ out' = created
    /\ pc' = IF created.RasterCount = 0 THEN "error" ELSE loop
    /\ raised' = IF created.RasterCount = 0 THEN "RuntimeError" ELSE "none"

\* The operation raises before it creates its output.
Raises(exception) ==
    /\ pc' = "error"
    /\ raised' = exception
    /\ out' = out

\* A pass of a loop over the inputs ends: the output holds the copy and the
\* loop moves on, or numpy refused the copy.
Copied(step, loop) ==
    IF step.ok
    THEN /\ out' = [out EXCEPT !.data = step.data]
         /\ i' = i + 1
         /\ pc' = IF i = Len(rasters) THEN "done" ELSE loop
         /\ raised' = "none"
    ELSE /\ pc' = "error"
         /\ raised' = step.raised
         /\ UNCHANGED << out, i >>

\* Only a list of no paths is refused.
no_raster_paths(raster_paths) == Len(raster_paths) = 0

\* if len(raster_paths) <= 1
too_few_raster_paths(raster_paths) == Len(raster_paths) <= 1

StackImages ==
    /\ pc = "idle"
    /\ \E mode \in GeometryModes :
        /\ geometry_mode' = mode
        /\ IF too_few_raster_paths(rasters)
           THEN Raises("StackImagesException")
           ELSE Created(create_new_image_from_polygon(
                            get_combined_polygon(rasters, mode), rasters[1].gt1,
                            float_mul(rasters[1].gt5, -1), total_layers(rasters)),
                        "stack")
    /\ op' = "stack_images"
    /\ i' = 1
    /\ present_layer' = 0
    /\ UNCHANGED << rasters, out_mask, combination_func, nodata, polygon, window,
                    point, pixel >>
    /\ UNCHANGED << classifier_vars, granule_vars, resource_vars, lifetime_vars >>

StackCopy ==
    /\ pc = "stack"
    /\ Copied(stack_step(out, rasters[i], present_layer,
                         get_combined_polygon(rasters, geometry_mode)),
              "stack")
    /\ present_layer' = IF pc' = "error" THEN present_layer
                        ELSE present_layer + rasters[i].RasterCount
    /\ UNCHANGED << rasters, op, out_mask, geometry_mode, combination_func, nodata,
                    polygon, window, point, pixel >>
    /\ UNCHANGED << classifier_vars, granule_vars, resource_vars, lifetime_vars >>

MosaicImages ==
    /\ pc = "idle"
    /\ \E nd \in NodataValues : nodata' = nd
    /\ IF Len(rasters) = 0
       THEN Raises("IndexError")
       ELSE Created(create_new_image_from_polygon(
                        get_combined_polygon(rasters, "union"), rasters[1].gt1,
                        float_mul(rasters[1].gt5, -1), rasters[1].RasterCount),
                    "mosaic")
    /\ op' = "mosaic_images"
    /\ geometry_mode' = "union"
    /\ i' = 1
    /\ UNCHANGED << rasters, out_mask, present_layer, combination_func, polygon,
                    window, point, pixel >>
    /\ UNCHANGED << classifier_vars, granule_vars, resource_vars, lifetime_vars >>

MosaicCopy ==
    /\ pc = "mosaic"
    /\ Copied(mosaic_step(out, rasters[i], nodata), "mosaic")
    /\ UNCHANGED << rasters, op, out_mask, present_layer, geometry_mode,
                    combination_func, nodata, polygon, window, point, pixel >>
    /\ UNCHANGED << classifier_vars, granule_vars, resource_vars, lifetime_vars >>

CompositeImagesWithMask ==
    /\ pc = "idle"
    /\ IF Len(rasters) = 0
       THEN Raises("IndexError")
       ELSE Created(create_new_image_from_polygon(
                        get_combined_polygon(rasters, "union"), rasters[1].gt1,
                        float_mul(rasters[1].gt5, -1), rasters[1].RasterCount),
                    "composite")
    /\ op' = "composite_images_with_mask"
    /\ geometry_mode' = "union"
    /\ i' = 1
    /\ UNCHANGED << rasters, out_mask, present_layer, combination_func, nodata,
                    polygon, window, point, pixel >>
    /\ UNCHANGED << classifier_vars, granule_vars, resource_vars, lifetime_vars >>

\* The combine_masks call that follows the loop: it writes the composite's
\* mask and ends the operation.
MaskWritten(combined) ==
    /\ out_mask' = combined.out_mask
    /\ pc' = combined.status
    /\ raised' = combined.raised

\* A pass of the loop of composite_images_with_mask; the last pass is
\* followed by combine_masks over the masks of the inputs.
CompositePass(step) ==
    IF ~step.ok
    THEN /\ pc' = "error"
         /\ raised' = step.raised
         /\ UNCHANGED << out, i, out_mask, combination_func >>
    ELSE /\ out' = [out EXCEPT !.data = step.data]
         /\ i' = i + 1
         /\ IF i < Len(rasters)
            THEN /\ pc' = "composite"
                 /\ raised' = "none"
                 /\ UNCHANGED << out_mask, combination_func >>
            ELSE /\ MaskWritten(combine_masks(mask_paths(rasters), "or", "union"))
                 /\ combination_func' = "or"

CompositeCopy ==
    /\ pc = "composite"
    /\ CompositePass(composite_step(out, rasters[i]))
    /\ UNCHANGED << rasters, op, present_layer, geometry_mode, nodata, polygon,
                    window, point, pixel >>
    /\ UNCHANGED << classifier_vars, granule_vars, resource_vars, lifetime_vars >>

\* combine_masks, called with a combination_func and a geometry_func of the
\* given sets.
CombineMasksWith(combs, geoms) ==
    /\ pc = "idle"
    /\ \E comb \in combs, geom \in geoms :
        /\ combination_func' = comb
        /\ geometry_mode' = geom
        /\ MaskWritten(combine_masks(mask_paths(rasters), comb, geom))
    /\ op' = "combine_masks"
    /\ UNCHANGED << rasters, i, out, present_layer, nodata, polygon, window, point,
                    pixel >>
    /\ UNCHANGED << classifier_vars, granule_vars, resource_vars, lifetime_vars >>

CombineMasks == CombineMasksWith(CombinationFuncs, GeometryModes)

Next ==
    \/ StackImages
    \/ StackCopy
    \/ MosaicImages
    \/ MosaicCopy
    \/ CompositeImagesWithMask
    \/ CompositeCopy
    \/ CombineMasks

Spec == Init /\ [][Next]_vars

(***************************************************************************)
(* The same operations called with any arguments: a list of no, one or two *)
(* inputs, inputs whose footprints are disjoint, and a combination_func or *)
(* geometry_func that combine_masks does not know.                         *)
(***************************************************************************)
AnyCombinationFuncs == CombinationFuncs \cup {"xor"}

AnyGeometryModes == GeometryModes \cup {"difference"}

InitArguments ==
    /\ rasters \in ShortInputs \cup ApartInputs(1 .. MaxBands) \cup MaskPairs
    /\ Idle
    /\ NoGranule

CombineMasksAny == CombineMasksWith(AnyCombinationFuncs, AnyGeometryModes)

NextArguments ==
    \/ StackImages
    \/ StackCopy
    \/ MosaicImages
    \/ MosaicCopy
    \/ CompositeImagesWithMask
    \/ CompositeCopy
    \/ CombineMasksAny

SpecArguments == InitArguments /\ [][NextArguments]_vars

(***************************************************************************)
(* The chunked classifier.  classify_image is called with apply_mask left  *)
(* at its default False.  image_array, good_samples, good_indices and      *)
(* classes are sequences: the sample of flat index s is element s + 1.     *)
(* The model is a scikit-learn classifier: predict and predict_proba       *)
(* refuse an array of no samples and samples of a width other than the     *)
(* one the model was fitted with.                                          *)
(***************************************************************************)
ByteNodataValues == {0, 255}

ChunkCounts == {1, 7}

\* A value stored in a np.ubyte array or a GDT_Byte raster
ubyte(v) == v % 256

\* The empty raster of the size and geotransform of in_dataset.
create_matching_dataset(in_dataset, bands) ==
    Raster(in_dataset.gt0, in_dataset.gt1, in_dataset.gt3, in_dataset.gt5,
           in_dataset.RasterXSize, in_dataset.RasterYSize, bands,
           Full3(bands, in_dataset.RasterYSize, in_dataset.RasterXSize, 0),
           Full2(in_dataset.RasterYSize, in_dataset.RasterXSize, 0))

\* [band, y, x] to [x * y, band]: the sample of flat index r * x + c holds
\* the bands of pixel (r, c).
reshape_raster_for_ml(image) ==
    [s \in 1 .. image.RasterYSize * image.RasterXSize |->
        [k \in 1 .. image.RasterCount |->
            image.data[k - 1][(s - 1) \div image.RasterXSize][(s - 1) % image.RasterXSize]]]

\* A reshape that fills the raster column by column.
reshape_ml_out_by_column(classes, width, height) ==
    [r \in 0 .. height - 1 |-> [c \in 0 .. width - 1 |-> classes[c * height + r + 1]]]

\* np.reshape(classes, (height, width))
reshape_ml_out_to_raster(classes, width, height) ==
    [r \in 0 .. height - 1 |-> [c \in 0 .. width - 1 |-> classes[r * width + c + 1]]]

\* [x * y, classes] to [classes, y, x]
reshape_prob_out_to_raster(probs, width, height, classes) ==
    [k \in 0 .. classes - 1 |->
        [r \in 0 .. height - 1 |-> [c \in 0 .. width - 1 |-> probs[r * width + c + 1][k + 1]]]]

\* 0 in image_array
contains_zero(image_array) ==
    \E s \in DOMAIN image_array : \E k \in DOMAIN image_array[s] : image_array[s][k] = 0

\* np.all(j != nodata)
all_not_nodata(sample, nd) == \A k \in DOMAIN sample : sample[k] # nd

\* range(0, n_samples)
all_indices(image_array) == [s \in DOMAIN image_array |-> s - 1]

\* The flat indices of the good samples: those without nodata if the array
\* holds a 0, every index if it holds none.
good_indices(image_array, nd) ==
    IF contains_zero(image_array)
    THEN SelectSeq(all_indices(image_array),
                   LAMBDA j : all_not_nodata(image_array[j + 1], nd))
    ELSE all_indices(image_array)

good_samples(image_array, indices) ==
    [j \in DOMAIN indices |-> image_array[indices[j] + 1]]

\* The label the model gives a sample, a function of the sample alone.
predict_sample(sample) == 1 + ((sample[1] + sample[Len(sample)]) % NClasses)

\* The per-class probabilities the model gives a sample.
predict_proba_sample(sample) ==
    [k \in 1 .. NClasses |-> IF predict_sample(sample) = k THEN 1 ELSE 0]

\* A model that takes samples of any width.
predict_any_width(m, chunk_view) ==
    [ok |-> Len(chunk_view) > 0,
     labels |-> [j \in DOMAIN chunk_view |-> predict_sample(chunk_view[j])],
     proba |-> [j \in DOMAIN chunk_view |-> predict_proba_sample(chunk_view[j])]]

\* model.predict(chunk_view) and model.predict_proba(chunk_view)
predict(m, chunk_view) ==
    [ok |-> Len(chunk_view) > 0
                /\ \A j \in DOMAIN chunk_view : Len(chunk_view[j]) = m.n_features,
     labels |-> [j \in DOMAIN chunk_view |-> predict_sample(chunk_view[j])],
     proba |-> [j \in DOMAIN chunk_view |-> predict_proba_sample(chunk_view[j])]]

\* Slices that leave the residual samples out.
chunk_slice_even(chunk_id, chunks, chunk_size, chunk_resid, n) ==
    Slice(chunk_id * chunk_size, chunk_id * chunk_size + chunk_size, n)

\* The slice [offset : offset + chunk_size] of pass chunk_id, on n good
\* samples; the last pass takes the residual samples as well.
chunk_slice(chunk_id, chunks, chunk_size, chunk_resid, n) ==
    Slice(chunk_id * chunk_size,
          chunk_id * chunk_size
              + (IF chunk_id = chunks - 1 THEN chunk_size + chunk_resid ELSE chunk_size),
          n)

\* out_view[:] = model.predict(chunk_view) and, with a probability output,
\* prob_view[:, :] = model.predict_proba(chunk_view)
chunk_written(acc, view, chunk_view, prediction, want_probs) ==
    [ok |-> prediction.ok,
     classes |-> IF prediction.ok
                 THEN [j \in DOMAIN acc.classes |->
                          IF view[1] < j /\ j <= view[2]
                          THEN ubyte(prediction.labels[j - view[1]])
                          ELSE acc.classes[j]]
                 ELSE acc.classes,
     probs |-> IF prediction.ok /\ want_probs
               THEN [j \in DOMAIN acc.probs |->
                        IF view[1] < j /\ j <= view[2]
                        THEN prediction.proba[j - view[1]]
                        ELSE acc.probs[j]]
               ELSE acc.probs,
     predicted |-> Append(acc.predicted, chunk_view)]

\* One pass of the chunk loop over the slice view of the good samples.
chunk_pass(m, good, acc, view, want_probs) ==
    chunk_written(acc, view, SubSeq(good, view[1] + 1, view[2]),
                  predict(m, SubSeq(good, view[1] + 1, view[2])), want_probs)

\* The chunk loop from pass chunk_id on.
RECURSIVE classify_loop(_, _, _, _, _, _, _, _)
RECURSIVE classify_next(_, _, _, _, _, _, _, _)
classify_next(m, good, step, chunk_id, chunks, chunk_size, chunk_resid, want_probs) ==
    IF step.ok
    THEN classify_loop(m, good, step, chunk_id + 1, chunks, chunk_size, chunk_resid,
                       want_probs)
    ELSE step

classify_loop(m, good, acc, chunk_id, chunks, chunk_size, chunk_resid, want_probs) ==
    IF chunk_id >= chunks THEN acc
    ELSE classify_next(m, good,
                       chunk_pass(m, good, acc,
                                  chunk_slice(chunk_id, chunks, chunk_size, chunk_resid,
                                              Len(good)),
                                  want_probs),
                       chunk_id, chunks, chunk_size, chunk_resid, want_probs)

\* classes and probs as np.full leaves them, before the first pass.
classify_arrays(n_good_samples, nd) ==
    [ok |-> TRUE,
     classes |-> [j \in 1 .. n_good_samples |-> ubyte(nd)],
     probs |-> [j \in 1 .. n_good_samples |-> [k \in 1 .. NClasses |-> nd]],
     predicted |-> << >>]

\* The chunk loop over the good samples, with chunk_size = int(n_good_samples
\* / num_chunks) and chunk_resid = n_good_samples - chunk_size * num_chunks.
classify_chunks(m, good, chunks, nd, want_probs) ==
    classify_loop(m, good, classify_arrays(Len(good), nd), 0, chunks,
                  Len(good) \div chunks,
                  Len(good) - (Len(good) \div chunks) * chunks, want_probs)

\* class_out_array and prob_out_array: nodata, and the value of good sample j
\* at flat index good_indices[j].
scatter(n_samples, indices, values, fill) ==
    [s \in 1 .. n_samples |->
        IF \E j \in DOMAIN indices : indices[j] = s - 1
        THEN values[CHOOSE j \in DOMAIN indices : indices[j] = s - 1]
        ELSE fill]

\* The end of classify_image: the rasters as created if a pass raised, the
\* class map and the probability map written to them if none did.
classify_written(image, nd, want_probs, class_out_image, prob_out_image, indices, done) ==
    [status |-> IF done.ok THEN "done" ELSE "error",
     raised |-> IF done.ok THEN "none" ELSE "ValueError",
     class_out |->
         IF done.ok
         THEN [class_out_image EXCEPT !.data =
                  [k \in {0} |-> reshape_ml_out_to_raster(
                      [s \in 1 .. image.RasterYSize * image.RasterXSize |->
                          ubyte(scatter(image.RasterYSize * image.RasterXSize, indices,
                                        done.classes, nd)[s])],
                      image.RasterXSize, image.RasterYSize)]]
         ELSE class_out_image,
     prob_out |->
         IF done.ok /\ want_probs
         THEN [prob_out_image EXCEPT !.data =
                  reshape_prob_out_to_raster(
                      scatter(image.RasterYSize * image.RasterXSize, indices, done.probs,
                              [k \in 1 .. NClasses |-> nd]),
                      image.RasterXSize, image.RasterYSize, NClasses)]
         ELSE prob_out_image,
     predicted |-> done.predicted]

classify_good(image, m, chunks, nd, want_probs, class_out_image, prob_out_image, image_array, indices) ==
    classify_written(image, nd, want_probs, class_out_image, prob_out_image, indices,
                     classify_chunks(m, good_samples(image_array, indices), chunks, nd,
                                     want_probs))

\* After the outputs are created: the array of a raster of one band is 2-D,
\* and reshape_raster_for_ml fails to unpack its shape.
classify_created(image, m, chunks, nd, want_probs, class_out_image, prob_out_image) ==
    IF Is2D(image)
    THEN [status |-> "error", raised |-> "ValueError", class_out |-> class_out_image,
          prob_out |-> prob_out_image, predicted |-> << >>]
    ELSE classify_good(image, m, chunks, nd, want_probs, class_out_image, prob_out_image,
                       reshape_raster_for_ml(image),
                       good_indices(reshape_raster_for_ml(image), nd))

\* classify_image: how it ends, the class raster and the probability raster
\* it leaves, and the chunks the model was given.
classify_image(image, m, chunks, nd, want_probs) ==
    classify_created(image, m, chunks, nd, want_probs,
                     create_matching_dataset(image, 1),
                     IF want_probs THEN create_matching_dataset(image, m.n_classes_)
                     ELSE NoRaster)

\* A raster of any band count and size with a choice of positions set to a
\* value that may be declared as nodata.
ClassifyInputs ==
    UNION { { << Raster(0, 1, 0, -1, w, h, b,
                        [k \in 0 .. b - 1 |-> [r \in 0 .. h - 1 |-> [c \in 0 .. w - 1 |->
                            IF << k, r, c >> \in z THEN hole ELSE Tag(1, k, r, c)]]],
                        Full2(h, w, 1)) >> :
                z \in SparseSets(Positions3(b, h, w)), hole \in ByteNodataValues } :
            w \in {1, MaxCols}, h \in {1, MaxRows}, b \in 1 .. MaxBands }

InitClassify ==
    /\ rasters \in ClassifyInputs
    /\ Idle
    /\ NoGranule

\* classify_image returns or raises.
Classified(result) ==
    /\ pc' = result.status
    /\ raised' = result.raised
    /\ out' = result.class_out
    /\ prob_out' = result.prob_out
    /\ predicted' = result.predicted

ClassifyImage ==
    /\ pc = "idle"
    /\ \E nd \in ByteNodataValues, chunks \in ChunkCounts, width \in 1 .. MaxBands,
          want_probs \in BOOLEAN :
        /\ nodata' = nd
        /\ num_chunks' = chunks
        /\ model' = [n_features |-> width, n_classes_ |-> NClasses]
        /\ prob_out_dir' = want_probs
        /\ Classified(classify_image(rasters[1], model', chunks, nd, want_probs))
    /\ op' = "classify_image"
    /\ UNCHANGED << rasters, i, out_mask, present_layer, geometry_mode, combination_func,
                    polygon, window, point, pixel, memory, granule_vars,
                    resource_vars, lifetime_vars >>

NextClassify == ClassifyImage

SpecClassify == InitClassify /\ [][NextClassify]_vars

(***************************************************************************)
(* autochunk.  mem_limit is counted in bytes; the argument None and the    *)
(* argument 0 both take the default, 80% of the free memory that           *)
(* os.sysconf reports.  The function returns << "int", n >>, or            *)
(* << "None" >> when its loop ends without a return statement.             *)
(***************************************************************************)
MaxMem == 16

ItemSizes == {1, 2}

MemLimits == 0 .. MaxMem

FreeMemory == 0 .. MaxMem + 4

\* mem_limit after "if not mem_limit": int(free * 0.8) by default.
default_mem_limit(mem_limit, avail) ==
    IF mem_limit = 0 THEN (4 * avail) \div 5 ELSE mem_limit

\* The loop "for num_chunks in range(1, pixels)" from num_chunks on.
RECURSIVE autochunk_loop(_, _, _, _)
autochunk_loop(pixels, bytes_per_pixel, mem_limit, chunks) ==
    IF chunks >= pixels THEN << "None" >>
    ELSE IF pixels % chunks # 0
         THEN autochunk_loop(pixels, bytes_per_pixel, mem_limit, chunks + 1)
         ELSE IF (pixels \div chunks) * bytes_per_pixel < mem_limit
              THEN << "int", chunks >>
              ELSE autochunk_loop(pixels, bytes_per_pixel, mem_limit, chunks + 1)

autochunk(dataset, itemsize, mem_limit, avail) ==
    autochunk_loop(dataset.RasterXSize * dataset.RasterYSize,
                   itemsize * dataset.RasterCount,
                   default_mem_limit(mem_limit, avail), 1)

\* classify_image with num_chunks=None: the count autochunk returned is
\* used as it is, and int(n_good_samples / None) is a TypeError, raised
\* after the outputs were created and the image was reshaped.
classify_image_auto(image, m, auto, nd, want_probs) ==
    IF auto[1] = "None"
    THEN IF Is2D(image)
         THEN classify_image(image, m, 1, nd, want_probs)
         ELSE [status |-> "error", raised |-> "TypeError",
               class_out |-> create_matching_dataset(image, 1),
               prob_out |-> IF want_probs
                            THEN create_matching_dataset(image, m.n_classes_)
                            ELSE NoRaster,
               predicted |-> << >>]
    ELSE classify_image(image, m, auto[2], nd, want_probs)

InitAutochunk ==
    /\ rasters \in ClassifyInputs
    /\ Idle
    /\ NoGranule

Autochunk ==
    /\ pc = "idle"
    /\ \E size \in ItemSizes, limit \in MemLimits, avail \in FreeMemory :
        /\ limit # 0 => avail = 0
        /\ memory' = [mem_limit |-> limit, avail |-> avail, itemsize |-> size]
        /\ returned' = autochunk(rasters[1], size, limit, avail)
    /\ pc' = "done"
    /\ op' = "autochunk"
    /\ UNCHANGED << rasters, raised, i, out, out_mask, present_layer, geometry_mode,
                    combination_func, nodata, polygon, window, point, pixel, model,
                    num_chunks, prob_out_dir, prob_out, predicted, image_paths,
                    safe_dir, resource_vars, lifetime_vars >>

\* classify_image(..., num_chunks=None) on a byte image.
ClassifyImageAutochunk ==
    /\ pc = "idle"
    /\ \E nd \in ByteNodataValues, avail \in FreeMemory, width \in 1 .. MaxBands,
          want_probs \in BOOLEAN :
        /\ nodata' = nd
        /\ memory' = [mem_limit |-> 0, avail |-> avail, itemsize |-> 1]
        /\ returned' = autochunk(rasters[1], 1, 0, avail)
        /\ model' = [n_features |-> width, n_classes_ |-> NClasses]
        /\ prob_out_dir' = want_probs
        /\ Classified(classify_image_auto(rasters[1], model', returned', nd, want_probs))
    /\ num_chunks' = 0
    /\ op' = "classify_image"
    /\ UNCHANGED << rasters, i, out_mask, present_layer, geometry_mode, combination_func,
                    polygon, window, point, pixel, image_paths, safe_dir,
                    resource_vars, lifetime_vars >>

NextAutochunk ==
    \/ Autochunk
    \/ ClassifyImageAutochunk

SpecAutochunk == InitAutochunk /\ [][NextAutochunk]_vars

(***************************************************************************)
(* create_new_image_from_polygon, called on its own with a rectangle or    *)
(* the empty geometry and a resolution of its own.                         *)
(***************************************************************************)
MaxExtent == 7

MaxPixel == 4

Extents == 1 .. MaxExtent

Resolutions == 1 .. MaxPixel

AllocatorPolygons ==
    { Rectangle(x, x + w, y, y + h) :
          x \in {-MaxOff, 0}, y \in {0, MaxExtent}, w \in Extents, h \in Extents }
        \cup {EmptyGeometry}

InitAllocator ==
    /\ rasters = << >>
    /\ Idle
    /\ NoGranule

CreateNewImageFromPolygon ==
    /\ pc = "idle"
    /\ \E poly \in AllocatorPolygons, x_res \in Resolutions, y_res \in Resolutions,
          bands \in 1 .. MaxBands :
        /\ polygon' = poly
        /\ resolution' = << x_res, y_res >>
        /\ Created(create_new_image_from_polygon(poly, x_res, y_res, bands), "done")
    /\ op' = "create_new_image_from_polygon"
    /\ UNCHANGED << rasters, i, out_mask, present_layer, geometry_mode, combination_func,
                    nodata, window, point, pixel, classifier_vars, granule_vars,
                    buffer_size, files,
                    lifetime_vars >>

NextAllocator == CreateNewImageFromPolygon

SpecAllocator == InitAllocator /\ [][NextAllocator]_vars

(***************************************************************************)
(* buffer_mask_in_place.  skimage.morphology.binary_erosion takes every    *)
(* nonzero value as True and what lies outside the array as True           *)
(* (border_value=True); disk(radius) is the structuring element of the     *)
(* offsets (dr, dc) with dr^2 + dc^2 <= radius^2.                          *)
(***************************************************************************)
MaxMask == 3

MaxBuffer == 2

\* A structuring element of the whole square around the pixel.
square(radius) ==
    { << dr, dc >> \in (-radius .. radius) \X (-radius .. radius) : TRUE }

\* skimage.morphology.disk(radius), as the offsets it sets
disk(radius) ==
    { << dr, dc >> \in (-radius .. radius) \X (-radius .. radius) :
          dr * dr + dc * dc <= radius * radius }

\* skimage.morphology.binary_erosion(mask_array, selem)
binary_erosion(mask_array, ysize, xsize, selem) ==
    [r \in 0 .. ysize - 1 |-> [c \in 0 .. xsize - 1 |->
        \A d \in selem :
            (r + d[1] \in 0 .. ysize - 1 /\ c + d[2] \in 0 .. xsize - 1)
                => mask_array[r + d[1]][c + d[2]] # 0]]

\* np.copyto(mask_array, cache): True is stored as 1 and False as 0.
buffer_mask_in_place(mask, size) ==
    [mask EXCEPT !.data =
        [k \in {0} |-> [r \in 0 .. mask.RasterYSize - 1 |->
                          [c \in 0 .. mask.RasterXSize - 1 |->
            IF binary_erosion(mask.data[0], mask.RasterYSize, mask.RasterXSize,
                              disk(size))[r][c]
            THEN 1 ELSE 0]]]]

\* A mask file of one band, of any size and any binary content.
BufferInputs ==
    UNION { { << Raster(0, 1, 0, -1, w, h, 1,
                        [k \in {0} |-> [r \in 0 .. h - 1 |-> [c \in 0 .. w - 1 |->
                            IF << r, c >> \in z THEN 0 ELSE 1]]],
                        Full2(h, w, 1)) >> :
                z \in SUBSET Positions2(h, w) } :
            w \in 1 .. MaxMask, h \in 1 .. MaxMask }

InitBuffer ==
    /\ rasters \in BufferInputs
    /\ Idle
    /\ NoGranule

BufferMaskInPlace ==
    /\ pc = "idle"
    /\ \E size \in 0 .. MaxBuffer :
        /\ buffer_size' = size
        /\ out_mask' = buffer_mask_in_place(rasters[1], size)
    /\ pc' = "done"
    /\ op' = "buffer_mask_in_place"
    /\ UNCHANGED << rasters, raised, i, out, present_layer, geometry_mode,
                    combination_func, nodata, polygon, window, point, pixel,
                    classifier_vars, granule_vars, resolution, files,
                    lifetime_vars >>

NextBuffer == BufferMaskInPlace

SpecBuffer == InitBuffer /\ [][NextBuffer]_vars

(***************************************************************************)
(* Granules.  The name of an image is held as the components that          *)
(* split("_") gives for its basename without the extension.  A .SAFE       *)
(* directory is the set of 10 m band files it holds and its 20 m cloud     *)
(* confidence layer, NoRaster if the layer is missing.                     *)
(***************************************************************************)
CloudThreshold == 60

Tiles == {"T15PXT", "T15PXU"}

Timestamps == {"20180301T162211", "20180311T162211", "20180312T194348"}

\* The name of an L2A image of a tile, sensed at the timestamp ts.
ImageName(tile, ts) ==
    << "S2A", "MSIL2A", ts, "N0206", "R040", tile, "20180312T194348" >>

\* comps[5]
get_sen_2_image_tile(image_name) == image_name[6]

\* re.search of eight digits, T and six digits: the first such component.
get_sen_2_image_timestamp(image_name) ==
    image_name[CHOOSE j \in DOMAIN image_name :
                  /\ image_name[j] \in Timestamps
                  /\ \A k \in 1 .. j - 1 : image_name[k] \notin Timestamps]

\* out_path + ".tif"
stacked_path(old_image_path, new_image_path) ==
    << get_sen_2_image_tile(new_image_path), get_sen_2_image_timestamp(old_image_path),
       get_sen_2_image_timestamp(new_image_path), ".tif" >>

\* An older and a newer image, of any two tiles.
ImagePairs ==
    { << ImageName(tile_old, "20180301T162211"), ImageName(tile_new, "20180311T162211") >> :
        tile_old \in Tiles, tile_new \in Tiles }

BandNames == << "B02", "B03", "B04", "B08" >>

\* The band files the glob finds, sorted by name.
file_list(dir) == SelectSeq(BandNames, LAMBDA band : band \in dir.bands)

\* The 20 m cloud confidence layers: two pixels, each just below or at the
\* threshold.
CloudLayers ==
    { Raster(0, 20, 0, -20, 2, 1, 1, [k \in {0} |-> [r \in {0} |-> conf]],
             Full2(1, 2, 1)) : conf \in [0 .. 1 -> {CloudThreshold - 1, CloudThreshold}] }

SafeDirs ==
    { [path |-> "S2A_MSIL2A_20180301T162211_N0206_R040_T15PXT_20180312T194348.SAFE",
       bands |-> present, cloud |-> layer] :
        present \in SUBSET {BandNames[j] : j \in DOMAIN BandNames},
        layer \in CloudLayers \cup {NoRaster} }

\* The 10 m band files of a .SAFE directory, opened: one band each, over the
\* extent of the cloud layer.
band_rasters(dir) ==
    [j \in 1 .. Len(file_list(dir)) |->
        Raster(0, 10, 0, -10, 4, 2, 1, TagData(j, 1, 2, 4), Full2(2, 4, 1))]

\* gdal.Warp to pixels of new_res: each pixel takes the value of the source
\* pixel that holds its centre.
resample_image_in_place(image, new_res) ==
    Raster(image.gt0, new_res, image.gt3, -new_res,
           (image.RasterXSize * image.gt1) \div new_res,
           (image.RasterYSize * (-image.gt5)) \div new_res, image.RasterCount,
           [k \in DOMAIN image.data |->
               [r \in 0 .. ((image.RasterYSize * (-image.gt5)) \div new_res) - 1 |->
                   [c \in 0 .. ((image.RasterXSize * image.gt1) \div new_res) - 1 |->
                       image.data[k][(2 * r * new_res + new_res) \div (2 * (-image.gt5))]
                                    [(2 * c * new_res + new_res) \div (2 * image.gt1)]]]],
           Full2((image.RasterYSize * (-image.gt5)) \div new_res,
                 (image.RasterXSize * image.gt1) \div new_res, 0))

\* The mask file of the confidence layer: 1 where the confidence is below
\* the threshold, resampled to 10 m.
create_mask_from_confidence_layer(cloud_image, cloud_conf_threshold) ==
    resample_image_in_place(
        [create_matching_dataset(cloud_image, 1) EXCEPT !.data =
            [k \in {0} |-> [r \in DOMAIN cloud_image.data[0] |->
                [c \in DOMAIN cloud_image.data[0][r] |->
                    IF cloud_image.data[0][r][c] < cloud_conf_threshold THEN 1 ELSE 0]]]],
        10)

InitGranules ==
    /\ Idle
    /\ \/ /\ rasters \in CopiedInputs \cup MaskPairs
          /\ image_paths \in ImagePairs
          /\ safe_dir = NoSafeDir
       \/ /\ safe_dir \in SafeDirs
          /\ rasters = band_rasters(safe_dir)
          /\ image_paths = << >>

\* stack_old_and_new_images: the two images are stacked if their tiles are
\* equal; if not, an error is logged and the call returns None.
StackOldAndNewImages ==
    /\ pc = "idle"
    /\ image_paths # << >>
    /\ IF get_sen_2_image_tile(image_paths[1]) = get_sen_2_image_tile(image_paths[2])
       THEN /\ Created(create_new_image_from_polygon(
                           get_combined_polygon(rasters, "intersect"), rasters[1].gt1,
                           float_mul(rasters[1].gt5, -1), total_layers(rasters)),
                       "stack_old_and_new")
            /\ geometry_mode' = "intersect"
            /\ returned' = returned
       ELSE /\ pc' = "done"
            /\ raised' = "none"
            /\ returned' = << "None" >>
            /\ UNCHANGED << out, geometry_mode >>
    /\ op' = "stack_old_and_new_images"
    /\ i' = 1
    /\ present_layer' = 0
    /\ UNCHANGED << rasters, out_mask, combination_func, nodata, polygon, window, point,
                    pixel, classifier_vars, image_paths, safe_dir,
                    resource_vars, lifetime_vars >>

\* A pass of the loop of stack_images inside stack_old_and_new_images; the
\* last pass is followed by combine_masks over the masks of the two images.
StackOldAndNewPass(step) ==
    IF ~step.ok
    THEN /\ pc' = "error"
         /\ raised' = step.raised
         /\ UNCHANGED << out, i, present_layer, out_mask, combination_func, returned >>
    ELSE /\ out' = [out EXCEPT !.data = step.data]
         /\ i' = i + 1
         /\ present_layer' = present_layer + rasters[i].RasterCount
         /\ IF i < Len(rasters)
            THEN /\ pc' = "stack_old_and_new"
                 /\ raised' = "none"
                 /\ UNCHANGED << out_mask, combination_func, returned >>
            ELSE /\ MaskWritten(combine_masks(mask_paths(rasters), "and", "intersect"))
                 /\ combination_func' = "and"
                 /\ returned' = IF pc' = "done"
                                 THEN stacked_path(image_paths[1], image_paths[2])
                                 ELSE returned

StackOldAndNewCopy ==
    /\ pc = "stack_old_and_new"
    /\ StackOldAndNewPass(stack_step(out, rasters[i], present_layer,
                                     get_combined_polygon(rasters, "intersect")))
    /\ UNCHANGED << rasters, op, geometry_mode, nodata, polygon, window, point, pixel,
                    classifier_vars, image_paths, safe_dir,
                    resource_vars, lifetime_vars >>

\* aggregate_and_mask_10m_bands over one .SAFE directory, without a cloud
\* model: stack_sentinel_2_bands raises BadS2Exception if the glob finds no
\* band file and stacks the files it finds otherwise.
AggregateAndMask10mBands ==
    /\ pc = "idle"
    /\ safe_dir # NoSafeDir
    /\ IF Len(rasters) = 0
       THEN Raises("BadS2Exception")
       ELSE IF too_few_raster_paths(rasters)
       THEN Raises("StackImagesException")
       ELSE Created(create_new_image_from_polygon(
                        get_combined_polygon(rasters, "intersect"), rasters[1].gt1,
                        float_mul(rasters[1].gt5, -1), total_layers(rasters)),
                    "aggregate")
    /\ op' = "aggregate_and_mask_10m_bands"
    /\ geometry_mode' = "intersect"
    /\ i' = 1
    /\ present_layer' = 0
    /\ UNCHANGED << rasters, out_mask, combination_func, nodata, polygon, window, point,
                    pixel, classifier_vars, granule_vars, resource_vars, lifetime_vars >>

\* A pass of the loop of stack_images inside stack_sentinel_2_bands; the last
\* pass is followed by create_mask_from_confidence_layer, where [0] of an
\* empty glob is an IndexError.
AggregatePass(step) ==
    IF ~step.ok
    THEN /\ pc' = "error"
         /\ raised' = step.raised
         /\ UNCHANGED << out, i, present_layer, out_mask >>
    ELSE /\ out' = [out EXCEPT !.data = step.data]
         /\ i' = i + 1
         /\ present_layer' = present_layer + rasters[i].RasterCount
         /\ IF i < Len(rasters)
            THEN /\ pc' = "aggregate"
                 /\ raised' = "none"
                 /\ out_mask' = out_mask
            ELSE IF safe_dir.cloud = NoRaster
            THEN /\ pc' = "error"
                 /\ raised' = "IndexError"
                 /\ out_mask' = out_mask
            ELSE /\ pc' = "done"
                 /\ raised' = "none"
                 /\ out_mask' = create_mask_from_confidence_layer(safe_dir.cloud,
                                                                  CloudThreshold)

AggregateCopy ==
    /\ pc = "aggregate"
    /\ AggregatePass(stack_step(out, rasters[i], present_layer,
                                get_combined_polygon(rasters, "intersect")))
    /\ UNCHANGED << rasters, op, geometry_mode, combination_func, nodata, polygon,
                    window, point, pixel, classifier_vars, granule_vars, resource_vars, lifetime_vars >>

NextGranules ==
    \/ StackOldAndNewImages
    \/ StackOldAndNewCopy
    \/ AggregateAndMask10mBands
    \/ AggregateCopy

SpecGranules == InitGranules /\ [][NextGranules]_vars

(***************************************************************************)
(* aggregate_and_mask_10m_bands with a cloud model.  The image's mask is   *)
(* the file "image.msk" (get_mask_path(out_path)); "temp_model.msk" is the *)
(* path temp_model_mask_path in the temporary directory.  files maps each  *)
(* mask path that exists to the step that wrote it last and to the raster  *)
(* it holds.  create_mask_from_model classifies into "cat_mask.tif" in a   *)
(* temporary directory of its own, which is gone when it returns.          *)
(***************************************************************************)
ModelChunks == 10

ModelBuffer == 10

\* The cloud confidence layers of three pixels.
WideCloudLayers ==
    { Raster(0, 20, 0, -20, 3, 1, 1, [k \in {0} |-> [r \in {0} |-> conf]],
             Full2(1, 3, 1)) : conf \in [0 .. 2 -> {CloudThreshold - 1, CloudThreshold}] }

\* .SAFE directories with a cloud layer of two or three pixels, or none.
CloudModelDirs ==
    { [path |-> "S2A_MSIL2A_20180301T162211_N0206_R040_T15PXT_20180312T194348.SAFE",
       bands |-> present, cloud |-> layer] :
        present \in { {"B02", "B03"}, {"B02", "B03", "B04", "B08"} },
        layer \in CloudLayers \cup WideCloudLayers \cup {NoRaster} }

\* The 10 m band files over the extent of the cloud layer (of two 20 m
\* pixels if the directory has none), two rows of pixels each.
wide_band_rasters(dir) ==
    [j \in 1 .. Len(file_list(dir)) |->
        Raster(0, 10, 0, -10,
               IF dir.cloud = NoRaster THEN 4 ELSE 2 * dir.cloud.RasterXSize, 2, 1,
               TagData(j, 1, 2, IF dir.cloud = NoRaster THEN 4
                                ELSE 2 * dir.cloud.RasterXSize),
               Full2(2, IF dir.cloud = NoRaster THEN 4 ELSE 2 * dir.cloud.RasterXSize, 1))]

\* A file is written at a path by a step.
written(fs, path, step, raster) ==
    [p \in DOMAIN fs \cup {path} |->
        IF p = path THEN [by |-> step, raster |-> raster] ELSE fs[p]]

\* A mask file opened as a mask: its array is the data of its one band.
mask_file(fs, path) == [fs[path].raster EXCEPT !.msk = fs[path].raster.data[0]]

\* np.where(temp_mask_array != model_clear, 0, 1) with model_clear bound to
\* the string temp_model_mask_path: no class value equals a string, so the
\* mask is 0 everywhere.
mask_from_classes(temp_mask, model_clear) ==
    [create_matching_dataset(temp_mask, 1) EXCEPT !.data =
        [k \in {0} |-> [r \in DOMAIN temp_mask.data[0] |->
            [c \in DOMAIN temp_mask.data[0][r] |->
                IF model_clear \in {"temp_model.msk"} THEN 0
                ELSE IF temp_mask.data[0][r][c] # model_clear THEN 0 ELSE 1]]]]

\* create_mask_from_model(image_path, model_path, model_clear, buffer_size=10):
\* classify_image into cat_mask.tif, then the mask written at
\* get_mask_path(image_path) and buffered in place.
create_mask_from_model(classified, model_clear, size) ==
    IF classified.status = "error"
    THEN [status |-> "error", raised |-> classified.raised, mask |-> NoRaster]
    ELSE [status |-> "done", raised |-> "none",
          mask |-> IF size # 0
                   THEN buffer_mask_in_place(
                            mask_from_classes(classified.class_out, model_clear), size)
                   ELSE mask_from_classes(classified.class_out, model_clear)]

InitCloudModel ==
    /\ Idle
    /\ safe_dir \in CloudModelDirs
    /\ rasters = wide_band_rasters(safe_dir)
    /\ image_paths = << >>

\* aggregate_and_mask_10m_bands(in_dir, out_dir, cloud_model_path=...): the
\* start of stack_sentinel_2_bands.
AggregateWithCloudModel ==
    /\ pc = "idle"
    /\ \E width \in {2, 4} : model' = [n_features |-> width, n_classes_ |-> NClasses]
    /\ Created(create_new_image_from_polygon(
                   get_combined_polygon(rasters, "intersect"), rasters[1].gt1,
                   float_mul(rasters[1].gt5, -1), total_layers(rasters)),
               "stack_sentinel_2_bands")
    /\ op' = "aggregate_and_mask_10m_bands"
    /\ geometry_mode' = "intersect"
    /\ i' = 1
    /\ present_layer' = 0
    /\ UNCHANGED << rasters, out_mask, combination_func, nodata, polygon, window, point,
                    pixel, num_chunks, prob_out_dir, prob_out, predicted, memory,
                    granule_vars, resource_vars, lifetime_vars >>

\* A pass of the loop of stack_images inside stack_sentinel_2_bands.
CloudModelPass(step) ==
    IF ~step.ok
    THEN /\ pc' = "error"
         /\ raised' = step.raised
         /\ UNCHANGED << out, i, present_layer >>
    ELSE /\ out' = [out EXCEPT !.data = step.data]
         /\ i' = i + 1
         /\ present_layer' = present_layer + rasters[i].RasterCount
         /\ pc' = IF i < Len(rasters) THEN "stack_sentinel_2_bands"
                  ELSE "create_mask_from_confidence_layer"
         /\ raised' = "none"

CloudModelCopy ==
    /\ pc = "stack_sentinel_2_bands"
    /\ CloudModelPass(stack_step(out, rasters[i], present_layer,
                                 get_combined_polygon(rasters, "intersect")))
    /\ UNCHANGED << rasters, op, out_mask, geometry_mode, combination_func, nodata,
                    polygon, window, point, pixel, classifier_vars, granule_vars,
                    resource_vars, lifetime_vars >>

\* confidence_mask_path = create_mask_from_confidence_layer(out_path, safe_dir,
\* cloud_threshold): the mask is written at get_mask_path(out_path).
CreateMaskFromConfidenceLayer ==
    /\ pc = "create_mask_from_confidence_layer"
    /\ IF safe_dir.cloud = NoRaster
       THEN /\ pc' = "error"
            /\ raised' = "IndexError"
            /\ files' = files
       ELSE /\ pc' = "create_mask_from_model"
            /\ raised' = "none"
            /\ files' = written(files, "image.msk", "create_mask_from_confidence_layer",
                                create_mask_from_confidence_layer(safe_dir.cloud,
                                                                  CloudThreshold))
    /\ UNCHANGED << rasters, op, i, out, out_mask, present_layer, geometry_mode,
                    combination_func, nodata, polygon, window, point, pixel,
                    classifier_vars, granule_vars, resolution, buffer_size,
                    lifetime_vars >>

\* How create_mask_from_model ends, and the mask file it leaves at
\* get_mask_path(image_path).
ModelMaskWritten(result) ==
    /\ pc' = IF result.status = "error" THEN "error" ELSE "combine_masks"
    /\ raised' = result.raised
    /\ files' = IF result.status = "error" THEN files
                ELSE written(files, "image.msk", "create_mask_from_model", result.mask)

\* create_mask_from_model(out_path, cloud_model_path, temp_model_mask_path,
\* buffer_size=10): the third positional parameter is model_clear.
CreateMaskFromModel ==
    /\ pc = "create_mask_from_model"
    /\ num_chunks' = ModelChunks
    /\ nodata' = 0
    /\ buffer_size' = ModelBuffer
    /\ ModelMaskWritten(create_mask_from_model(
                            classify_image(out, model, ModelChunks, 0, FALSE),
                            "temp_model.msk", ModelBuffer))
    /\ UNCHANGED << rasters, op, i, out, out_mask, present_layer, geometry_mode,
                    combination_func, polygon, window, point, pixel, model,
                    prob_out_dir, prob_out, predicted, memory, granule_vars,
                    resolution,
                    lifetime_vars >>

\* combine_masks((temp_model_mask_path, confidence_mask_path),
\* get_mask_path(out_path), combination_func="or"): gdal.Open raises for a
\* path that holds no file.
CombineCloudMasks ==
    /\ pc = "combine_masks"
    /\ combination_func' = "or"
    /\ IF "temp_model.msk" \notin DOMAIN files \/ "image.msk" \notin DOMAIN files
       THEN /\ pc' = "error"
            /\ raised' = "RuntimeError"
            /\ UNCHANGED << out_mask, files >>
       ELSE /\ MaskWritten(combine_masks(<< mask_file(files, "temp_model.msk"),
                                            mask_file(files, "image.msk") >>,
                                         "or", "intersect"))
            /\ files' = IF pc' = "done"
                        THEN written(files, "image.msk", "combine_masks", out_mask')
                        ELSE files
    /\ UNCHANGED << rasters, op, i, out, present_layer, geometry_mode, nodata, polygon,
                    window, point, pixel, classifier_vars, granule_vars, resolution,
                    buffer_size,
                    lifetime_vars >>

NextCloudModel ==
    \/ AggregateWithCloudModel
    \/ CloudModelCopy
    \/ CreateMaskFromConfidenceLayer
    \/ CreateMaskFromModel
    \/ CombineCloudMasks

SpecCloudModel == InitCloudModel /\ [][NextCloudModel]_vars

(***************************************************************************)
(* Handles and views.  A raster handle is a gdal dataset held by a name or *)
(* a list; GetVirtualMemArray returns a view into the dataset's buffer,    *)
(* and numpy slices and masked arrays over a view are views of the same    *)
(* dataset.  A handle is released when its last reference goes: on         *)
(* "name = None" and, for the locals of a function, at its return.  The    *)
(* order in which a return drops the locals is the interpreter's.          *)
(***************************************************************************)
\* in_raster_list[j - 1], composite_image, and the mask of get_masked_array
in_raster_handle(j) == << "in_raster", j >>

composite_image_handle == << "composite_image", 0 >>

mask_handle(j) == << "mask", j >>

view_of(name, handle) == [name |-> name, of |-> handle]

\* The locals of get_masked_array that its return drops for good: mask and,
\* where mask_array is still the view, mask_array.  project_array rebinds
\* the name to a copy, and raster_array lives on in the returned array.
get_masked_array_locals(raster) == IF Is2D(raster) THEN {"mask", "mask_array"} ELSE {"mask"}

InitLifetimes ==
    /\ rasters \in CopiedInputs \cup MaskPairs
    /\ Idle
    /\ NoGranule

\* in_raster_list, composite_image and output_array
CompositeOpens ==
    /\ pc = "idle"
    /\ handles' = { in_raster_handle(j) : j \in 1 .. Len(rasters) }
                      \cup {composite_image_handle}
    /\ views' = { view_of("output_array", composite_image_handle) }
    /\ pc' = "output_view"
    /\ op' = "composite_images_with_mask"
    /\ i' = 1
    /\ UNCHANGED << rasters, raised, out, out_mask, present_layer, geometry_mode,
                    combination_func, nodata, polygon, window, point, pixel,
                    classifier_vars, granule_vars, resource_vars, frame >>

\* output_view = output_array[:, y_min:y_max, x_min:x_max]
TakeOutputView ==
    /\ pc = "output_view"
    /\ views' = views \cup { view_of("output_view", composite_image_handle) }
    /\ pc' = "get_masked_array"
    /\ UNCHANGED << rasters, raised, op, i, out, out_mask, present_layer, geometry_mode,
                    combination_func, nodata, polygon, window, point, pixel,
                    classifier_vars, granule_vars, resource_vars, handles, frame >>

\* get_masked_array up to its return statement: mask is opened, mask_array
\* and raster_array are taken, and the masked array is built over
\* raster_array and a copy of the mask.
GetMaskedArray ==
    /\ pc = "get_masked_array"
    /\ handles' = handles \cup { mask_handle(i) }
    /\ views' = views \cup { view_of("raster_array", in_raster_handle(i)) }
                      \cup (IF Is2D(rasters[i])
                            THEN { view_of("mask_array", mask_handle(i)) } ELSE {})
    /\ frame' = get_masked_array_locals(rasters[i])
    /\ pc' = "return"
    /\ UNCHANGED << rasters, raised, op, i, out, out_mask, present_layer, geometry_mode,
                    combination_func, nodata, polygon, window, point, pixel,
                    classifier_vars, granule_vars, resource_vars >>

\* The return of get_masked_array drops a local.
ReturnDrops ==
    /\ pc = "return"
    /\ \E local \in frame :
        /\ frame' = frame \ {local}
        /\ handles' = IF local = "mask" THEN handles \ { mask_handle(i) } ELSE handles
        /\ views' = IF local = "mask_array"
                    THEN views \ { view_of("mask_array", mask_handle(i)) } ELSE views
    /\ pc' = IF frame' = {} THEN "copyto" ELSE "return"
    /\ UNCHANGED << rasters, raised, op, i, out, out_mask, present_layer, geometry_mode,
                    combination_func, nodata, polygon, window, point, pixel,
                    classifier_vars, granule_vars, resource_vars >>

\* np.copyto(output_view, in_masked, ...); output_view = None; in_masked = None
CopyAndDeallocate ==
    /\ pc = "copyto"
    /\ views' = views \ { view_of("output_view", composite_image_handle),
                          view_of("raster_array", in_raster_handle(i)) }
    /\ i' = i + 1
    /\ pc' = IF i < Len(rasters) THEN "output_view" ELSE "composite_return"
    /\ UNCHANGED << rasters, raised, op, out, out_mask, present_layer, geometry_mode,
                    combination_func, nodata, polygon, window, point, pixel,
                    classifier_vars, granule_vars, resource_vars, handles, frame >>

\* output_array = None, and the return of composite_images_with_mask, which
\* drops in_raster_list and composite_image.
CompositeReturns ==
    /\ pc = "composite_return"
    /\ views' = views \ { view_of("output_array", composite_image_handle) }
    /\ handles' = {}
    /\ pc' = "done"
    /\ UNCHANGED << rasters, raised, op, i, out, out_mask, present_layer, geometry_mode,
                    combination_func, nodata, polygon, window, point, pixel,
                    classifier_vars, granule_vars, resource_vars, frame >>

NextLifetimes ==
    \/ CompositeOpens
    \/ TakeOutputView
    \/ GetMaskedArray
    \/ ReturnDrops
    \/ CopyAndDeallocate
    \/ CompositeReturns

SpecLifetimes == InitLifetimes /\ [][NextLifetimes]_vars

(***************************************************************************)
(* C1.  The window pixel_bounds_from_polygon returns for a north-up raster *)
(* and a polygon that overlaps it lies inside the raster and is ordered:   *)
(* 0 <= x_min <= x_max <= RasterXSize and 0 <= y_min <= y_max <=           *)
(* RasterYSize.                                                            *)
(***************************************************************************)
Overlaps(raster, poly) ==
    LET both == Intersection(get_raster_bounds(raster), poly)
    IN  ~both.empty /\ both.x_min < both.x_max /\ both.y_min < both.y_max

Contains(raster, poly) ==
    ~poly.empty /\ Intersection(get_raster_bounds(raster), poly) = poly

WindowInsideRaster ==
    (op = "pixel_bounds_from_polygon" /\ pc = "done" /\ Overlaps(rasters[i], polygon))
        => /\ 0 <= window[1] /\ window[1] <= window[2]
           /\ window[2] <= rasters[i].RasterXSize
           /\ 0 <= window[3] /\ window[3] <= window[4]
           /\ window[4] <= rasters[i].RasterYSize

\* A polygon strictly inside the footprint of a larger raster was mapped.
WindowInsideRasterWitness ==
    /\ op = "pixel_bounds_from_polygon" /\ pc = "done"
    /\ Contains(rasters[i], polygon)
    /\ Overlaps(rasters[i], polygon)
    /\ polygon # get_raster_bounds(rasters[i])
    /\ window[1] < window[2] /\ window[3] < window[4]
    /\ window[3] > 0

(***************************************************************************)
(* C2.  For a grid of positive pixel width and negative pixel height and   *)
(* an in-bounds pixel (col, row), point_to_pixel_coordinates maps the      *)
(* pixel's geographic corner back to exactly (col, row).                   *)
(***************************************************************************)
AffineRoundTrip ==
    (op = "point_to_pixel_coordinates" /\ pc = "done") => pixel = point

(***************************************************************************)
(* Geographic locations.  The inputs below have whole-number origins and   *)
(* pixel sizes, so the location of a pixel is computed exactly here,       *)
(* apart from the float conversions of the program.                        *)
(***************************************************************************)
\* The raster src lies on the pixel grid of the raster o.
OnGrid(o, src) ==
    /\ o.gt1 = src.gt1 /\ o.gt5 = src.gt5
    /\ (o.gt0 - src.gt0) % src.gt1 = 0
    /\ (src.gt3 - o.gt3) % (-src.gt5) = 0

\* The column and the row of src at the location of pixel (r, c) of o.
SrcCol(o, src, c) == (o.gt0 + c * o.gt1 - src.gt0) \div src.gt1

SrcRow(o, src, r) == (src.gt3 - o.gt3 - r * o.gt5) \div (-src.gt5)

\* The raster src has a pixel at the location of pixel (r, c) of o.
Covers(o, src, r, c) ==
    /\ OnGrid(o, src)
    /\ SrcCol(o, src, c) \in 0 .. src.RasterXSize - 1
    /\ SrcRow(o, src, r) \in 0 .. src.RasterYSize - 1

\* The inputs are of one pixel size and band count and lie on one grid.
Aligned(rs) ==
    \A j \in 1 .. Len(rs) : OnGrid(rs[1], rs[j]) /\ rs[j].RasterCount = rs[1].RasterCount

\* The inputs are of one extent and size.
SameExtent(rs) ==
    \A j \in 1 .. Len(rs) :
        /\ rs[j].gt0 = rs[1].gt0 /\ rs[j].gt3 = rs[1].gt3
        /\ rs[j].gt1 = rs[1].gt1 /\ rs[j].gt5 = rs[1].gt5
        /\ rs[j].RasterXSize = rs[1].RasterXSize
        /\ rs[j].RasterYSize = rs[1].RasterYSize

\* The greatest member of a non-empty set of numbers.
Last(S) == CHOOSE j \in S : \A m \in S : m <= j

InOverlap(r, c) == \A a \in 1 .. Len(rasters) : Covers(out, rasters[a], r, c)

StackedBand(a, offset) ==
    \A j \in 0 .. rasters[a].RasterCount - 1 :
        \A r \in 0 .. out.RasterYSize - 1, c \in 0 .. out.RasterXSize - 1 :
            InOverlap(r, c)
                => out.data[offset + j][r][c]
                       = rasters[a].data[j][SrcRow(out, rasters[a], r)][SrcCol(out, rasters[a], c)]

StackBandRanges ==
    (op = "stack_images" /\ pc \in {"stack", "done"})
        => /\ present_layer = SumBands(SubSeq(rasters, 1, i - 1))
           /\ present_layer <= out.RasterCount
           /\ pc = "stack" => present_layer + rasters[i].RasterCount <= out.RasterCount
           /\ pc = "done"
                => /\ present_layer = out.RasterCount
                   /\ \A a \in 1 .. Len(rasters) :
                          StackedBand(a, SumBands(SubSeq(rasters, 1, a - 1)))

\* Two rasters of two bands each that overlap in part were stacked, and the
\* third band of the output holds the first band of the second input.
StackBandRangesWitness ==
    /\ op = "stack_images" /\ pc = "done"
    /\ Len(rasters) = 2
    /\ rasters[1].RasterCount = 2 /\ rasters[2].RasterCount = 2
    /\ out.gt0 > rasters[1].gt0
    /\ InOverlap(0, 0)
    /\ out.data[2][0][0] = rasters[2].data[0][SrcRow(out, rasters[2], 0)][SrcCol(out, rasters[2], 0)]
    /\ out.data[0][0][0] = rasters[1].data[0][SrcRow(out, rasters[1], 0)][SrcCol(out, rasters[1], 0)]

(***************************************************************************)
(* C5.  mosaic_images over inputs of one band count on one grid ends with  *)
(* every value of the output equal to the value, at that location and      *)
(* band, of the last input that holds a value other than nodata there;     *)
(* two identical copies of a raster without nodata give that raster.       *)
(***************************************************************************)
\* The inputs that hold a value other than nodata at band k of pixel (r, c).
MosaicSources(k, r, c) ==
    { j \in 1 .. Len(rasters) :
        /\ Covers(out, rasters[j], r, c)
        /\ rasters[j].data[k][SrcRow(out, rasters[j], r)][SrcCol(out, rasters[j], c)] # nodata }

ValueOf(j, k, r, c) ==
    rasters[j].data[k][SrcRow(out, rasters[j], r)][SrcCol(out, rasters[j], c)]

MosaicValues ==
    \A k \in 0 .. out.RasterCount - 1 :
        \A r \in 0 .. out.RasterYSize - 1, c \in 0 .. out.RasterXSize - 1 :
            MosaicSources(k, r, c) # {}
                => out.data[k][r][c] = ValueOf(Last(MosaicSources(k, r, c)), k, r, c)

MosaicLastWins ==
    (op = "mosaic_images" /\ pc \in {"done", "error"} /\ Aligned(rasters))
        => pc = "done" /\ MosaicValues

(***************************************************************************)
(* C6.  A pass of mosaic_images over one input leaves a value of the       *)
(* output as it was wherever the input holds nodata at that location and   *)
(* band (so a pixel of the input that is nodata in every band changes no   *)
(* band), and everywhere outside the window of the input.                  *)
(***************************************************************************)
\* The window of the output that the pass over input i writes.
MosaicWindow == pixel_bounds_from_polygon(out, get_raster_bounds(rasters[i]))

InWindow(w, r, c) == w[1] <= c /\ c < w[2] /\ w[3] <= r /\ r < w[4]

MosaicFrameAt(w) ==
    \A k \in 0 .. out.RasterCount - 1 :
        \A r \in 0 .. out.RasterYSize - 1, c \in 0 .. out.RasterXSize - 1 :
            (\/ ~InWindow(w, r, c)
             \/ rasters[i].data[k][r - w[3]][c - w[1]] = nodata)
                => out'.data[k][r][c] = out.data[k][r][c]

MosaicPass ==
    (pc = "mosaic" /\ pc' \in {"mosaic", "done"} /\ Aligned(rasters))
        => MosaicFrameAt(MosaicWindow)

MosaicFrame == [][MosaicPass]_vars

\* The second input, smaller than the output, held nodata where the first
\* held a value, and the output still holds the value of the first there.
MosaicFrameWitness ==
    /\ op = "mosaic_images" /\ pc = "done" /\ nodata = 0
    /\ Aligned(rasters)
    /\ out.RasterXSize > rasters[2].RasterXSize
    /\ \E k \in 0 .. out.RasterCount - 1 :
           \E r \in 0 .. out.RasterYSize - 1, c \in 0 .. out.RasterXSize - 1 :
               /\ Covers(out, rasters[1], r, c) /\ Covers(out, rasters[2], r, c)
               /\ ValueOf(2, k, r, c) = 0
               /\ ValueOf(1, k, r, c) # 0
               /\ out.data[k][r][c] = ValueOf(1, k, r, c)

(***************************************************************************)
(* C7.  composite_images_with_mask over inputs on one grid ends with every *)
(* value of the output whose location is valid (mask 1) in some input      *)
(* equal to the value of the last input that is valid there; a location    *)
(* that no input holds as valid keeps the value the output was created     *)
(* with.                                                                   *)
(***************************************************************************)
\* The inputs whose mask is valid at pixel (r, c) of the output.
ValidSources(r, c) ==
    { j \in 1 .. Len(rasters) :
        /\ Covers(out, rasters[j], r, c)
        /\ rasters[j].msk[SrcRow(out, rasters[j], r)][SrcCol(out, rasters[j], c)] = 1 }

CompositeValues ==
    \A k \in 0 .. out.RasterCount - 1 :
        \A r \in 0 .. out.RasterYSize - 1, c \in 0 .. out.RasterXSize - 1 :
            out.data[k][r][c] =
                IF ValidSources(r, c) = {} THEN 0
                ELSE ValueOf(Last(ValidSources(r, c)), k, r, c)

CompositeLatestValid ==
    (op = "composite_images_with_mask" /\ pc = "done" /\ Aligned(rasters))
        => CompositeValues

\* At one pixel the second input was valid and replaced the first; at
\* another it was masked, and the output holds the value of the first.
CompositeLatestValidWitness ==
    /\ op = "composite_images_with_mask" /\ pc = "done" /\ Aligned(rasters)
    /\ \E r \in 0 .. out.RasterYSize - 1, c \in 0 .. out.RasterXSize - 1 :
           /\ ValidSources(r, c) = {1, 2}
           /\ out.data[0][r][c] = ValueOf(2, 0, r, c)
    /\ \E r \in 0 .. out.RasterYSize - 1, c \in 0 .. out.RasterXSize - 1 :
           /\ ValidSources(r, c) = {1}
           /\ Covers(out, rasters[2], r, c)
           /\ out.data[0][r][c] = ValueOf(1, 0, r, c)

(***************************************************************************)
(* C8.  The mask that composite_images_with_mask writes is, at every       *)
(* pixel, the OR of the masks of the inputs at that location: 1 where some *)
(* input is valid, 0 elsewhere.                                            *)
(***************************************************************************)
CompositeMaskIsOr ==
    (op = "composite_images_with_mask" /\ pc = "done" /\ Aligned(rasters))
        => \A r \in 0 .. out_mask.RasterYSize - 1, c \in 0 .. out_mask.RasterXSize - 1 :
               out_mask.data[0][r][c] = IF ValidSources(r, c) = {} THEN 0 ELSE 1

(***************************************************************************)
(* C9.  combine_masks with 'and' and 'intersect' over binary masks of one  *)
(* extent writes the pixelwise AND of the masks.                           *)
(***************************************************************************)
MaskAnd ==
    (/\ op = "combine_masks" /\ pc = "done"
     /\ combination_func = "and" /\ geometry_mode = "intersect"
     /\ SameExtent(rasters))
        => \A r \in 0 .. out_mask.RasterYSize - 1, c \in 0 .. out_mask.RasterXSize - 1 :
               out_mask.data[0][r][c]
                   = IF \A j \in 1 .. Len(rasters) : rasters[j].msk[r][c] = 1 THEN 1 ELSE 0

(***************************************************************************)
(* C10.  combine_masks with 'or' and 'intersect' over a binary mask and a  *)
(* mask of ones of the same extent writes a mask of ones of that extent.   *)
(***************************************************************************)
AllOnes(mask2d) == \A r \in DOMAIN mask2d : \A c \in DOMAIN mask2d[r] : mask2d[r][c] = 1

MaskOrOnes ==
    (/\ op = "combine_masks" /\ pc \in {"done", "error"}
     /\ combination_func = "or" /\ geometry_mode = "intersect"
     /\ Len(rasters) = 2 /\ SameExtent(rasters) /\ AllOnes(rasters[2].msk))
        => /\ pc = "done"
           /\ out_mask.RasterXSize = rasters[1].RasterXSize
           /\ out_mask.RasterYSize = rasters[1].RasterYSize
           /\ AllOnes(out_mask.data[0])

\* A mask that holds a 0 was combined with a mask of ones.
MaskOrOnesWitness ==
    /\ op = "combine_masks" /\ pc = "done"
    /\ combination_func = "or" /\ geometry_mode = "intersect"
    /\ Len(rasters) = 2 /\ SameExtent(rasters) /\ AllOnes(rasters[2].msk)
    /\ ~AllOnes(rasters[1].msk)
    /\ AllOnes(out_mask.data[0])

(***************************************************************************)
(* C11.  combine_masks with 'nor' over two masks of the same extent that   *)
(* are all zeros writes an output mask that is all ones, and every value   *)
(* of the output mask is 0 or 1 (no 254 or 255 of the byte arithmetic).    *)
(***************************************************************************)
AllZeros(mask2d) == \A r \in DOMAIN mask2d : \A c \in DOMAIN mask2d[r] : mask2d[r][c] = 0

Binary(mask2d) == \A r \in DOMAIN mask2d : \A c \in DOMAIN mask2d[r] : mask2d[r][c] \in {0, 1}

MaskNorZeros ==
    (/\ op = "combine_masks" /\ pc \in {"done", "error"}
     /\ combination_func = "nor" /\ geometry_mode \in GeometryModes
     /\ Len(rasters) = 2 /\ SameExtent(rasters)
     /\ AllZeros(rasters[1].msk) /\ AllZeros(rasters[2].msk))
        => /\ pc = "done"
           /\ out_mask.RasterXSize = rasters[1].RasterXSize
           /\ out_mask.RasterYSize = rasters[1].RasterYSize
           /\ AllOnes(out_mask.data[0])
           /\ Binary(out_mask.data[0])

\* Two masks of zeros were combined with 'nor'.
MaskNorZerosWitness ==
    /\ op = "combine_masks" /\ pc = "done"
    /\ combination_func = "nor" /\ geometry_mode = "intersect"
    /\ Len(rasters) = 2 /\ SameExtent(rasters)
    /\ AllZeros(rasters[1].msk) /\ AllZeros(rasters[2].msk)
    /\ AllOnes(out_mask.data[0])

(***************************************************************************)
(* C14.  pixel_bounds_from_polygon fails whenever the intersection of the  *)
(* raster's footprint and the polygon is empty: it returns no window for a *)
(* polygon that does not overlap the raster.                               *)
(***************************************************************************)
EmptyIntersectionFails ==
    (/\ op = "pixel_bounds_from_polygon" /\ pc \in {"done", "error"}
     /\ get_poly_intersection(get_raster_bounds(rasters[i]), polygon).empty)
        => /\ pc = "error"
           /\ window = NoWindow

(***************************************************************************)
(* C15.  stack_images, mosaic_images and composite_images_with_mask over   *)
(* two inputs whose footprints do not overlap fail before a destination    *)
(* raster is produced: none of them returns an empty or partly filled      *)
(* raster.                                                                 *)
(***************************************************************************)
Disjoint(rs) ==
    Intersection(get_raster_bounds(rs[1]), get_raster_bounds(rs[2])).empty

NonOverlapFails ==
    (/\ op \in {"stack_images", "mosaic_images", "composite_images_with_mask"}
     /\ Len(rasters) = 2 /\ Disjoint(rasters))
        => /\ pc = "error"
           /\ out = NoRaster

(***************************************************************************)
(* C17.  stack_images given no or one input path raises                    *)
(* StackImagesException, and no output raster is created.                  *)
(***************************************************************************)
StackNeedsTwo ==
    (op = "stack_images" /\ Len(rasters) <= 1)
        => /\ pc = "error"
           /\ raised = "StackImagesException"
           /\ out = NoRaster

\* stack_images was called with one path and raised.
StackNeedsTwoWitness ==
    /\ op = "stack_images" /\ Len(rasters) = 1
    /\ pc = "error" /\ raised = "StackImagesException"

(***************************************************************************)
(* C18.  combine_masks ends with the exception that names the bad argument *)
(* for every combination_func and every geometry_func it does not know,    *)
(* whatever the list of masks: empty, of one mask, or longer.              *)
(***************************************************************************)
ConfigurationErrors ==
    {"Exception: Invalid combination_func", "Exception: Invalid geometry mode"}

UnknownArgumentRefused ==
    (/\ op = "combine_masks"
     /\ (combination_func \notin CombinationFuncs \/ geometry_mode \notin GeometryModes))
        => /\ pc = "error"
           /\ raised \in ConfigurationErrors

(***************************************************************************)
(* C12.  classify_image with num_chunks = 7 ends as it does with           *)
(* num_chunks = 1 on the same raster, model and nodata value, and leaves   *)
(* the same class map, whether or not the number of good samples is        *)
(* divisible by 7.                                                         *)
(***************************************************************************)
OneChunk == classify_image(rasters[1], model, 1, nodata, prob_out_dir)

ChunkCountInvariant ==
    (op = "classify_image" /\ pc \in {"done", "error"} /\ num_chunks = 7)
        => /\ pc = OneChunk.status
           /\ out = OneChunk.class_out

(***************************************************************************)
(* C13.  For every raster and declared nodata value, classify_image with a *)
(* model of the raster's width writes nodata to the class map at exactly   *)
(* the pixels where some band equals nodata and the model's label of the   *)
(* pixel everywhere else, and hands no sample with a nodata band to the    *)
(* model.                                                                  *)
(***************************************************************************)
HasNodata(image, r, c, nd) == \E k \in 0 .. image.RasterCount - 1 : image.data[k][r][c] = nd

PixelSample(image, r, c) == [k \in 1 .. image.RasterCount |-> image.data[k - 1][r][c]]

ClassMapOf(image, nd) ==
    [k \in {0} |-> [r \in 0 .. image.RasterYSize - 1 |-> [c \in 0 .. image.RasterXSize - 1 |->
        IF HasNodata(image, r, c, nd) THEN nd ELSE predict_sample(PixelSample(image, r, c))]]]

NodataExcluded ==
    (/\ op = "classify_image" /\ pc \in {"done", "error"}
     /\ rasters[1].RasterCount >= 2 /\ model.n_features = rasters[1].RasterCount
     /\ num_chunks = 1)
        => /\ pc = "done"
           /\ out.data = ClassMapOf(rasters[1], nodata)
           /\ \A n \in DOMAIN predicted : \A j \in DOMAIN predicted[n] :
                  all_not_nodata(predicted[n][j], nodata)

TileMismatchRaises ==
    (/\ op = "stack_old_and_new_images"
     /\ get_sen_2_image_tile(image_paths[1]) # get_sen_2_image_tile(image_paths[2]))
        => /\ pc = "error"
           /\ raised # "none"

(***************************************************************************)
(* C20.  aggregate_and_mask_10m_bands over a .SAFE directory that lacks    *)
(* one of the band files B02, B03, B04, B08 or the cloud confidence layer  *)
(* ends with BadS2Exception, without a stack and without a mask.           *)
(***************************************************************************)
Incomplete(dir) ==
    dir.bands # {BandNames[j] : j \in DOMAIN BandNames} \/ dir.cloud = NoRaster

IncompleteGranuleRaises ==
    (op = "aggregate_and_mask_10m_bands" /\ Incomplete(safe_dir))
        => /\ pc = "error"
           /\ raised = "BadS2Exception"
           /\ out = NoRaster
           /\ out_mask = NoRaster

(***************************************************************************)
(* C21: with no chunk count given, autochunk returns the smallest divisor  *)
(* d of the pixel count for which (pixels / d) * band count * bytes per    *)
(* value is under the memory limit.                                        *)
(***************************************************************************)
Pixels == rasters[1].RasterXSize * rasters[1].RasterYSize

MemLimit == default_mem_limit(memory.mem_limit, memory.avail)

\* d divides the pixel count and a chunk of pixels / d pixels is under the limit.
Fits(d) ==
    /\ Pixels % d = 0
    /\ (Pixels \div d) * rasters[1].RasterCount * memory.itemsize < MemLimit

SmallestFit == CHOOSE d \in 1 .. Pixels : Fits(d) /\ \A e \in 1 .. d - 1 : ~Fits(e)

AutochunkSmallestDivisor ==
    (op = "autochunk" /\ \E d \in 1 .. Pixels : Fits(d))
        => returned = << "int", SmallestFit >>

(***************************************************************************)
(* C30: for a dataset of at least one pixel and a positive memory limit    *)
(* autochunk returns a positive integer, and classify_image called with    *)
(* num_chunks=None goes on with that chunk count.                          *)
(***************************************************************************)
AutochunkReturnsCount ==
    (op \in {"autochunk", "classify_image"} /\ Pixels >= 1 /\ MemLimit > 0)
        => /\ returned[1] = "int"
           /\ returned[2] >= 1
           /\ raised # "TypeError"

(***************************************************************************)
(* C22: the raster create_new_image_from_polygon allocates has the width   *)
(* and height of the polygon's envelope divided by the resolution and      *)
(* truncated toward zero, its origin at the envelope's top-left corner     *)
(* (x_min, y_max), pixel width +x_res and pixel height -y_res.             *)
(***************************************************************************)
\* n is the quotient of the non-negative extent by res, truncated.
Truncated(n, extent, res) == n * res <= extent /\ extent < (n + 1) * res

AllocatedGrid ==
    (op = "create_new_image_from_polygon" /\ pc = "done")
        => /\ Truncated(out.RasterXSize, polygon.x_max - polygon.x_min, resolution[1])
           /\ Truncated(out.RasterYSize, polygon.y_max - polygon.y_min, resolution[2])
           /\ out.gt0 = polygon.x_min
           /\ out.gt3 = polygon.y_max
           /\ out.gt1 = resolution[1]
           /\ out.gt5 = -resolution[2]

\* An envelope of 7 by 3 units at a resolution of 2 by 2: 3 by 1 pixels.
AllocatedGridWitness ==
    /\ op = "create_new_image_from_polygon"
    /\ pc = "done"
    /\ polygon = Rectangle(-MaxOff, MaxExtent - MaxOff, MaxExtent, MaxExtent + 3)
    /\ resolution = << 2, 2 >>
    /\ out.RasterXSize = 3
    /\ out.RasterYSize = 1
    /\ out.gt0 = -MaxOff
    /\ out.gt3 = MaxExtent + 3
    /\ out.gt5 = -2

(***************************************************************************)
(* C23: the footprint of the raster create_new_image_from_polygon          *)
(* allocates is a superset of the polygon, up to rounding to whole pixels: *)
(* what the footprint leaves out of the polygon is at most half a pixel    *)
(* wide and half a pixel high.                                             *)
(***************************************************************************)
Footprint == get_raster_bounds(out)

MaskPixels == Positions2(rasters[1].RasterYSize, rasters[1].RasterXSize)

Before(p) == rasters[1].data[0][p[1]][p[2]]

After(p) == out_mask.data[0][p[1]][p[2]]

\* q lies within the radius buffer_size of p.
Near(p, q) ==
    (p[1] - q[1]) * (p[1] - q[1]) + (p[2] - q[2]) * (p[2] - q[2])
        <= buffer_size * buffer_size

BufferShrinksValid ==
    op = "buffer_mask_in_place"
        => /\ Shape(out_mask) = Shape(rasters[1])
           /\ \A p \in MaskPixels :
                /\ Before(p) = 0 => After(p) = 0
                /\ (\E q \in MaskPixels : Before(q) = 0 /\ Near(p, q)) => After(p) = 0
                /\ (\A q \in MaskPixels : Before(q) = 0 => ~Near(p, q)) => After(p) = 1

\* A 3x3 mask whose centre alone is invalid, buffered by 1: the four edge
\* neighbours become invalid and the four corners stay valid.
BufferShrinksValidWitness ==
    /\ op = "buffer_mask_in_place"
    /\ buffer_size = 1
    /\ rasters[1].RasterXSize = 3
    /\ rasters[1].RasterYSize = 3
    /\ \A p \in MaskPixels : Before(p) = 0 <=> p = << 1, 1 >>
    /\ After(<< 0, 1 >>) = 0
    /\ After(<< 1, 0 >>) = 0
    /\ After(<< 0, 0 >>) = 1
    /\ After(<< 2, 2 >>) = 1

(***************************************************************************)
(* C26: in classify_image, for n good samples and c chunks, the chunks are *)
(* contiguous index ranges that cover [0, n), each good sample in exactly  *)
(* one of them: the first c - 1 chunks have floor(n / c) samples and the   *)
(* last has floor(n / c) + (n mod c).  The chunks handed to the model are  *)
(* these ranges of the good samples, in order.                             *)
(***************************************************************************)
GoodSamples ==
    good_samples(reshape_raster_for_ml(rasters[1]),
                 good_indices(reshape_raster_for_ml(rasters[1]), nodata))

\* The index range <<start, stop>> of chunk k (from 0) of the loop.
ChunkRange(k) ==
    chunk_slice(k, num_chunks, Len(GoodSamples) \div num_chunks,
                Len(GoodSamples) - (Len(GoodSamples) \div num_chunks) * num_chunks,
                Len(GoodSamples))

ChunksPartition ==
    (op = "classify_image" /\ num_chunks >= 1 /\ ~Is2D(rasters[1]))
        => /\ ChunkRange(0)[1] = 0
           /\ ChunkRange(num_chunks - 1)[2] = Len(GoodSamples)
           /\ \A k \in 0 .. num_chunks - 2 :
                /\ ChunkRange(k)[2] = ChunkRange(k + 1)[1]
                /\ ChunkRange(k)[2] - ChunkRange(k)[1] = Len(GoodSamples) \div num_chunks
           /\ ChunkRange(num_chunks - 1)[2] - ChunkRange(num_chunks - 1)[1]
                  = (Len(GoodSamples) \div num_chunks) + (Len(GoodSamples) % num_chunks)
           /\ \A s \in 0 .. Len(GoodSamples) - 1 :
                  Cardinality({ k \in 0 .. num_chunks - 1 :
                                    ChunkRange(k)[1] <= s /\ s < ChunkRange(k)[2] }) = 1
           /\ \A k \in 1 .. Len(predicted) :
                  predicted[k] = SubSeq(GoodSamples, ChunkRange(k - 1)[1] + 1,
                                        ChunkRange(k - 1)[2])
           /\ pc = "done" => Len(predicted) = num_chunks

\* 15 good samples in 7 chunks: six chunks of 2 samples and a last one of 3.
ChunksPartitionWitness ==
    /\ op = "classify_image" /\ pc = "done" /\ num_chunks = 7
    /\ Len(GoodSamples) = 15
    /\ Len(predicted) = 7
    /\ \A k \in 1 .. 6 : Len(predicted[k]) = 2
    /\ Len(predicted[7]) = 3
    /\ ChunkRange(6) = << 12, 15 >>

(***************************************************************************)
(* C27: in classify_image the prediction for the k-th good sample is       *)
(* written to the class map at the (row, col) of the pixel the sample was  *)
(* taken from: pixel (row, col) has flat index row * width + col, the good *)
(* indices are increasing and aligned with the good samples, and flat      *)
(* index i goes back to (i div width, i mod width).  Every other pixel of  *)
(* the class map holds nodata.                                             *)
(***************************************************************************)
GoodIndices == good_indices(reshape_raster_for_ml(rasters[1]), nodata)

RowOf(s) == s \div rasters[1].RasterXSize

ColOf(s) == s % rasters[1].RasterXSize

ScatterKeepsPixel ==
    (op = "classify_image" /\ pc = "done")
        => /\ \A k \in 1 .. Len(GoodIndices) :
                /\ k > 1 => GoodIndices[k - 1] < GoodIndices[k]
                /\ GoodSamples[k]
                       = PixelSample(rasters[1], RowOf(GoodIndices[k]), ColOf(GoodIndices[k]))
                /\ out.data[0][RowOf(GoodIndices[k])][ColOf(GoodIndices[k])]
                       = predict_sample(GoodSamples[k])
           /\ \A s \in 0 .. Pixels - 1 :
                  (\A k \in 1 .. Len(GoodIndices) : GoodIndices[k] # s)
                      => out.data[0][RowOf(s)][ColOf(s)] = nodata

\* A raster of 5 by 3 pixels with a pixel left out: the pixels of one row
\* get different labels, and so do the pixels of one column.
ScatterKeepsPixelWitness ==
    /\ op = "classify_image" /\ pc = "done"
    /\ rasters[1].RasterXSize = MaxCols /\ rasters[1].RasterYSize = MaxRows
    /\ Len(GoodIndices) = Pixels - 1
    /\ out.data[0][0][0] # out.data[0][0][1]
    /\ out.data[0][0][0] # out.data[0][1][0]
    /\ out.data[0][2][4] = predict_sample(PixelSample(rasters[1], 2, 4))

(***************************************************************************)
(* C28: in stack_images, for overlapping inputs of one pixel size whose    *)
(* origins differ by any offset, in every pass of the loop the window of   *)
(* the destination and the window of the source over the combined polygon  *)
(* have the same width and the same height.                                *)
(***************************************************************************)
CombinedPolygon == get_combined_polygon(rasters, geometry_mode)

DestinationWindow == pixel_bounds_from_polygon(out, CombinedPolygon)

SourceWindow == pixel_bounds_from_polygon(rasters[i], CombinedPolygon)

\* The inputs share a pixel size and a part of positive area.
OverlappingInputs ==
    /\ \A j \in 1 .. Len(rasters) :
           rasters[j].gt1 = rasters[1].gt1 /\ rasters[j].gt5 = rasters[1].gt5
    /\ \A j \in 1 .. Len(rasters) :
           Overlaps(rasters[j], get_combined_polygon(rasters, "intersect"))

StackWindowsMatch ==
    (op = "stack_images" /\ pc = "stack" /\ OverlappingInputs)
        => /\ DestinationWindow[2] - DestinationWindow[1] = SourceWindow[2] - SourceWindow[1]
           /\ DestinationWindow[4] - DestinationWindow[3] = SourceWindow[4] - SourceWindow[3]

(***************************************************************************)
(* C29: with a cloud model, when combine_masks is called each of the two   *)
(* mask files it reads exists and was written by its own step - the model  *)
(* mask by create_mask_from_model at the temporary path, the confidence    *)
(* mask by create_mask_from_confidence_layer at the image's mask path, not *)
(* overwritten since - and the call leaves the combined mask at the        *)
(* image's mask path.                                                      *)
(***************************************************************************)
WithCloudModel == op = "aggregate_and_mask_10m_bands" /\ model # NoModel

CloudMasksCombined ==
    /\ (WithCloudModel /\ pc = "combine_masks")
           => /\ {"temp_model.msk", "image.msk"} \subseteq DOMAIN files
              /\ files["temp_model.msk"].by = "create_mask_from_model"
              /\ files["image.msk"].by = "create_mask_from_confidence_layer"
    /\ (WithCloudModel /\ combination_func = "or")
           => /\ pc = "done"
              /\ files["image.msk"].by = "combine_masks"
              /\ files["image.msk"].raster = out_mask

(***************************************************************************)
(* C25: a raster handle is released only after every view into its buffer  *)
(* has gone: at no point is there a live view whose handle has been        *)
(* released, the views of get_masked_array included.                       *)
(***************************************************************************)
ViewsWithinHandles == \A v \in views : v.of \in handles
====
